---- MODULE Spec2Model ----
(***************************************************************************)
(* Model of the agent harness: the session turn engine (SessionRunner),    *)
(* the run/session Store (approvals, cancellation, events, transcript)    *)
(* and the HTTP handlers that drive them.                                  *)
(***************************************************************************)
EXTENDS Integers, Sequences, FiniteSets, TLC

VARIABLES
    cfg,        \* the runner's configuration: session mode, approval policy,
                \* verify_policy.auto_verify, whether the kit reports a cost
    running,    \* SessionRunner._running
    ex,         \* the _execute_turn threads: locals and position of each
    stored,     \* Store._sessions[SID], the stored session record
    aliasOf,    \* executor whose local session object IS the stored object (0: none)
    approvals,  \* keys of Store._session_approvals[SID]
    decided,    \* resolved SessionApprovalWaiter objects: tool_call_id -> decision
    cancelTok,  \* Store._session_cancels[SID] (0: none)
    cancelled,  \* the CancelTokens whose event is set
    events,     \* the session's events log (events.ndjson)
    invoked,    \* the calls handed to tool.invoke, in order
    nextId,     \* source of fresh ids (messages, tool calls, turns, tokens)
    budget,     \* tool calls the model may still return
    fails,      \* tool results with ok=false (or exceptions) still to come
    texts,      \* model answers with text still to come
    answers,    \* model answers still to come
    nposts,     \* messages posted through the API so far
    api,        \* the event loop's thread inside the messages handler
    starts,     \* start_turn calls that will still be made
    ncancels,   \* cancel requests so far
    kcalls,     \* the tool calls of one model response, given to the dedup loop
    kout,       \* what the dedup loop made of kcalls
    ekind,      \* events of a "run" or of a "session"
    elog,       \* the events file of that id, one event id per line
    esubs,      \* Store._subs / Store._session_subs of that id
    edelivered, \* what each subscriber's handler was called with, in order
    ewriter,    \* the threads inside append_event / append_session_event
    enext,      \* the next event to append
    eread,      \* the last read_events call: max_items, the file's length, the result
    esince,     \* per subscriber: the file's length when its subscribe returned
    runApprovals, \* keys of Store._approvals[run]
    areq,       \* accepted registrations, per variant and key
    aok,        \* successful approve calls, per variant and key
    alast,      \* the last approval operation and how it ended
    wvariant,   \* a wait on a waiter of a "run" or of a "session"
    wmap,       \* Store._approvals[id] / _session_approvals[id]: key -> waiter (0: none)
    wobjs,      \* the waiter objects made so far: event set or not, decision
    wtok,       \* the CancelToken given to the wait: event set or not, reason
    wthr,       \* the thread in wait_for_approval / wait_for_session_approval
    whist,      \* the order in which the token was cancelled and waiters resolved
    rplan,      \* the plan of a run: its steps
    rstored,    \* Store._runs[id], the stored run record
    rthr,       \* the thread in Runner._execute
    rwaiters,   \* keys of Store._approvals[id] of that run
    rresolved,  \* the step ids whose waiter was resolved
    rcancelled, \* the run's CancelToken is set
    rlog,       \* the run's events and what was done for it, in order
    pmem,       \* Store._sessions[id] of the daemon process
    pdisk,      \* the content of sessions/<id>/session.json
    pthr,       \* per thread: its place in get_session .. update_session
    prestarts,  \* the number of daemon restarts
    lmem,       \* Store._sessions[id] of the store that saves
    lfile,      \* session.json: the parsed JSON object and who wrote it
    lnew        \* Store._sessions of the store made at the next startup

\* the bounded inputs of the model and of the tools
quota == <<budget, fails, texts, answers>>

\* what a step of an engine thread leaves alone
shared == <<cfg, running, decided, cancelTok, cancelled, nposts, api, starts, ncancels>>

engineVars == <<cfg, running, ex, stored, aliasOf, approvals, decided, cancelTok,
                cancelled, events, invoked, nextId, quota, nposts, api, starts, ncancels>>

keyVars == <<kcalls, kout>>

eventVars == <<ekind, elog, esubs, edelivered, ewriter, enext, eread, esince>>

approvalVars == <<runApprovals, areq, aok, alast>>

waitVars == <<wvariant, wmap, wobjs, wtok, wthr, whist>>

\* the variables of the specifications that follow the first four
runVars == <<rplan, rstored, rthr, rwaiters, rresolved, rcancelled, rlog>>

persistVars == <<pmem, pdisk, pthr, prestarts>>

loadVars == <<lmem, lfile, lnew>>

extraVars == <<waitVars, runVars, persistVars, loadVars>>

vars == <<engineVars, keyVars, eventVars, approvalVars, extraVars>>

\* Bounds of the model.
MaxExec == 2        \* thread slots
MaxPosts == 2       \* messages posted through the API
MaxStarts == 2      \* accepted start_turn calls
MaxCancels == 1     \* cancel requests
MaxRequests == 2    \* posts and cancel requests together
MaxCalls == 2       \* tool calls the model returns in total
MaxResp == 2        \* tool calls in one model response
MaxFails == 1       \* tool results that are not ok
MaxTexts == 1       \* model answers that carry text
MaxAnswers == 3     \* model answers (a further call of the model raises)
MaxEvents == 3      \* events appended to one id
MaxSubs == 1        \* subscribers of one id
MaxOps == 5         \* approval operations on the store
MaxWaiters == 2     \* waiter objects registered for one id
MaxWaits == 2       \* calls of wait_for_approval by the thread

\* max_turns in _execute_turn
MaxIterations == 8

(***************************************************************************)
(* JSON texts.  A text is a sequence of tokens: the structural characters, *)
(* a whitespace token, string literals ("a", "b"), number literals         *)
(* ("1", "2") and the literal null ("null").                               *)
(***************************************************************************)
WS == " "
KeyToks == {"a", "b"}
NumToks == {"1", "2"}
ScalarToks == KeyToks \cup NumToks

RECURSIVE LStrip(_)
LStrip(s) == IF s # <<>> /\ Head(s) = WS THEN LStrip(Tail(s)) ELSE s

RECURSIVE RStrip(_)
RStrip(s) ==
    IF s # <<>> /\ s[Len(s)] = WS THEN RStrip(SubSeq(s, 1, Len(s) - 1)) ELSE s

\* str.strip()
Strip(s) == RStrip(LStrip(s))

\* JSON whitespace between tokens is insignificant to the parser.
RECURSIVE DropWS(_)
DropWS(s) ==
    IF s = <<>> THEN <<>>
    ELSE IF Head(s) = WS THEN DropWS(Tail(s))
    ELSE <<Head(s)>> \o DropWS(Tail(s))

\* Insertion into a Python dict: an existing key keeps its position and
\* takes the new value, a new key goes last.
DictSet(d, k, v) ==
    IF \E i \in 1..Len(d) : d[i][1] = k
    THEN [i \in 1..Len(d) |-> IF d[i][1] = k THEN <<k, v>> ELSE d[i]]
    ELSE Append(d, <<k, v>>)

\* The members of an object, from the token after "{" or ",".
\* Result: [ok, dict] ; the text must end right after the closing "}".
RECURSIVE ParseMembers(_, _)
ParseMembers(t, d) ==
    IF Len(t) >= 4 /\ t[1] \in KeyToks /\ t[2] = ":" /\ t[3] \in ScalarToks
    THEN IF t[4] = "}" /\ Len(t) = 4
         THEN [ok |-> TRUE, val |-> DictSet(d, t[1], t[3])]
         ELSE IF t[4] = "," /\ Len(t) > 4
         THEN ParseMembers(SubSeq(t, 5, Len(t)), DictSet(d, t[1], t[3]))
         ELSE [ok |-> FALSE, val |-> <<>>]
    ELSE [ok |-> FALSE, val |-> <<>>]

\* json.loads on a token text: [ok, kind, val]; kind is "object", "scalar"
\* or "null".  ok = FALSE stands for the JSONDecodeError.
JsonLoads(s) ==
    LET t == DropWS(s) IN
    IF t = <<"{", "}">> THEN [ok |-> TRUE, kind |-> "object", val |-> <<>>]
    ELSE IF Len(t) >= 1 /\ t[1] = "{"
    THEN LET m == ParseMembers(Tail(t), <<>>) IN
         [ok |-> m.ok, kind |-> "object", val |-> m.val]
    ELSE IF Len(t) = 1 /\ t[1] \in ScalarToks
    THEN [ok |-> TRUE, kind |-> "scalar", val |-> t]
    ELSE IF t = <<"null">> THEN [ok |-> TRUE, kind |-> "null", val |-> <<>>]
    ELSE [ok |-> FALSE, kind |-> "error", val |-> <<>>]

\* json.dumps without sort_keys: the members in the dict's own order,
\* separated by ", " and ": ".
RECURSIVE DumpMembers(_)
DumpMembers(d) ==
    IF d = <<>> THEN <<>>
    ELSE <<d[1][1], ":", WS, d[1][2]>>
         \o (IF Len(d) > 1 THEN <<",", WS>> ELSE <<>>)
         \o DumpMembers(Tail(d))

JsonDumps(v) ==
    IF v.kind = "object" THEN <<"{">> \o DumpMembers(v.val) \o <<"}">>
    ELSE IF v.kind = "null" THEN <<"null">>
    ELSE v.val

\* session_runner._normalize_tool_input
NormalizeToolInput(input) ==
    LET raw == Strip(input) IN
    IF raw = <<>> \/ raw = <<"null">> THEN <<"{", "}">>
    ELSE LET v == JsonLoads(raw) IN
         IF v.ok THEN JsonDumps(v) ELSE raw

\* session_runner._tool_call_key: f"{call.name}:{normalized}"
ToolCallKey(call) == <<call.name, ":">> \o NormalizeToolInput(call.input)

\* session_runner._parse_tool_input: the value stored in the tool_use part.
ParseToolInput(input) ==
    LET raw == Strip(input) IN
    IF raw = <<>> \/ raw = <<"null">> THEN [ok |-> TRUE, kind |-> "object", val |-> <<>>]
    ELSE JsonLoads(raw)

(***************************************************************************)
(* Tools and the approval policy.                                          *)
(***************************************************************************)
BaseTools == {"repo_tree", "repo_map", "read_file", "search", "git_status",
              "apply_patch", "shell", "diagram", "verify"}
SpecTools == {"read_spec", "write_spec", "validate_spec"}

\* Tool.definition() of every tool: kind, requires_approval, allow_without_approval
ToolDefinition(name) ==
    [name |-> name,
     kind |-> IF name \in {"shell", "diagram", "verify"} THEN "exec"
              ELSE IF name \in {"apply_patch", "write_spec"} THEN "write"
              ELSE "read",
     requires_approval |-> name \in {"apply_patch", "shell", "diagram"},
     allow_without_approval |-> name = "write_spec"]

\* The registry of a turn: tools_factory, plus the spec tools in spec mode.
Registry(mode) == IF mode = "spec" THEN BaseTools \cup SpecTools ELSE BaseTools

\* default_approval_policy()
DefaultPolicy == [require_for_kinds |-> {"exec", "write"}, require_for_tools |-> {}]

\* A _requires_approval that looks at the tool's own flag only.
RequiresApproval_FlagOnly(def, policy) == def.requires_approval

\* SessionRunner._requires_approval
RequiresApproval(def, policy) ==
    IF def.allow_without_approval THEN FALSE
    ELSE IF def.requires_approval THEN TRUE
    ELSE IF def.kind \in policy.require_for_kinds THEN TRUE
    ELSE def.name \in policy.require_for_tools

\* The dedup loop of _execute_turn over the calls of one model response.
\* acc = [run, skipped, seen, unknown]; unknown: an unregistered tool was met
\* (RuntimeError "unknown tool"), the loop stops there.
RECURSIVE DedupLoop(_, _, _)
DedupLoop(calls, acc, reg) ==
    IF calls = <<>> \/ acc.unknown THEN acc
    ELSE LET c == Head(calls)
             k == ToolCallKey(c)
         IN  IF c.name \notin reg THEN [acc EXCEPT !.unknown = TRUE]
             ELSE IF k \in acc.seen
             THEN DedupLoop(Tail(calls), [acc EXCEPT !.skipped = Append(@, c)], reg)
             ELSE DedupLoop(Tail(calls),
                            [acc EXCEPT !.seen = @ \cup {k}, !.run = Append(@, c)], reg)

\* A dedup that forgets the keys of the earlier iterations.
DedupCalls_PerResponse(calls, seen, reg) ==
    DedupLoop(calls, [run |-> <<>>, skipped |-> <<>>, seen |-> {}, unknown |-> FALSE], reg)

DedupCalls(calls, seen, reg) ==
    DedupLoop(calls, [run |-> <<>>, skipped |-> <<>>, seen |-> seen, unknown |-> FALSE], reg)

(***************************************************************************)
(* The session, its store and the turn engine.                             *)
(***************************************************************************)
SID == "s1"
Executors == 1..MaxExec

NoCall == [id |-> 0, name |-> "", input |-> <<>>]
NoSession == [status |-> "", error |-> "", mode |-> "", messages |-> <<>>, turns |-> <<>>]

\* A thread slot with no _execute_turn running in it.
IdleThread ==
    [pc |-> "idle", turn |-> 0, tok |-> 0, sess |-> NoSession, iter |-> 0,
     dirty |-> FALSE, seen |-> {}, queue |-> <<>>, newCalls |-> 0, cur |-> NoCall]

Active == {e \in Executors : ex[e].pc # "idle"}

\* Message, MessagePart(type="tool_use"), Turn, SessionEvent
Msg(id, role, tcid, text, uses) ==
    [id |-> id, role |-> role, tool_call_id |-> tcid, text |-> text, tool_use |-> uses]
NewTurn(id) == [id |-> id, status |-> "pending", error |-> ""]
Event(type, tcid, by, turn, info) ==
    [type |-> type, id |-> tcid, by |-> by, turn |-> turn, info |-> info]

\* "for turn in session.turns: if turn.id == turn_id: ..."
SetTurn(s, tid, status, err) ==
    [s EXCEPT !.turns =
        [i \in 1..Len(s.turns) |->
            IF s.turns[i].id = tid
            THEN [s.turns[i] EXCEPT !.status = status, !.error = err]
            ELSE s.turns[i]]]
SetTurnStatus(s, tid, status) ==
    [s EXCEPT !.turns =
        [i \in 1..Len(s.turns) |->
            IF s.turns[i].id = tid
            THEN [s.turns[i] EXCEPT !.status = status]
            ELSE s.turns[i]]]

\* A step of thread e works on a bundle of the state it may touch and
\* commits it at the end.
Bundle(e) ==
    [e |-> e, th |-> ex[e], st |-> stored, al |-> aliasOf, ev |-> events,
     ap |-> approvals, id |-> nextId, inv |-> invoked]

Commit(b) ==
    /\ ex' = [ex EXCEPT ![b.e] = b.th]
    /\ stored' = b.st
    /\ aliasOf' = b.al
    /\ events' = b.ev
    /\ approvals' = b.ap
    /\ nextId' = b.id
    /\ invoked' = b.inv

\* Store.append_session_event, called by the engine thread
Emit(b, type, tcid, info) ==
    [b EXCEPT !.ev = Append(@, Event(type, tcid, "engine", b.th.turn, info))]

\* An assignment to the thread's local session object; the store sees it
\* at once when its entry is that very object.
SetLocal(b, s) ==
    [b EXCEPT !.th.sess = s, !.st = IF b.al = b.e THEN s ELSE @]

\* Store.update_session(session) with the thread's local object
UpdateLocal(b) == [b EXCEPT !.st = b.th.sess, !.al = b.e]

\* Store.update_session with a fresh copy (from get_session)
UpdateSession(b, s) == [b EXCEPT !.st = s, !.al = 0]

\* Store.append_message: get_session, append, update_session
AppendMessage(b, m) ==
    UpdateSession(b, [b.st EXCEPT !.messages = Append(@, m)])

\* "session.messages.append(msg)" on the local object
LocalAppend(b, m) == SetLocal(b, [b.th.sess EXCEPT !.messages = Append(@, m)])

\* SessionRunner._fail_turn, then the finally clause is next
FailTurn(b, err) ==
    LET s  == SetTurn([b.st EXCEPT !.status = "failed", !.error = err],
                      b.th.turn, "failed", err)
        b1 == Emit(UpdateSession(b, s), "turn_failed", 0, err)
    IN  [b1 EXCEPT !.th.pc = "exit"]

\* A _cancel_turn that appends no event.
CancelTurn_NoEvent(b) ==
    LET s  == SetTurn([b.st EXCEPT !.status = "canceled", !.error = "canceled"],
                      b.th.turn, "failed", "canceled")
        b1 == UpdateSession(b, s)
    IN  [b1 EXCEPT !.th.pc = "exit"]

\* SessionRunner._cancel_turn
CancelTurn(b) ==
    LET s  == SetTurn([b.st EXCEPT !.status = "canceled", !.error = "canceled"],
                      b.th.turn, "failed", "canceled")
        b1 == Emit(UpdateSession(b, s), "session_canceled", 0, "canceled")
    IN  [b1 EXCEPT !.th.pc = "exit"]

\* SessionRunner._complete_turn
CompleteTurn(b) ==
    LET s  == SetTurnStatus([b.st EXCEPT !.status = "active", !.error = ""],
                            b.th.turn, "succeeded")
        b1 == Emit(UpdateSession(b, s), "turn_completed", 0, "")
    IN  [b1 EXCEPT !.th.pc = "exit"]

\* Store.require_session_approval: TRUE when it registers, FALSE when it raises
CanRequire(ap, key) == key \notin ap

\* _invoke_verify up to the tool's invocation
StartVerify(b) ==
    LET vid == b.id
        b1  == [b EXCEPT !.id = @ + 1,
                         !.th.cur = [id |-> vid, name |-> "verify", input |-> <<"{", "}">>]]
    IN  IF RequiresApproval(ToolDefinition("verify"), cfg.policy)
        THEN IF CanRequire(b1.ap, vid)
             THEN LET b2 == Emit([b1 EXCEPT !.ap = @ \cup {vid}],
                                 "approval_requested", vid, "")
                  IN  [b2 EXCEPT !.th.pc = "vwaitenter"]
             ELSE FailTurn(b1, "approval already pending")
        ELSE LET b2 == Emit(b1, "tool_call_started", vid, "")
             IN  [b2 EXCEPT !.th.pc = "vinvoking", !.inv = Append(@, b1.th.cur)]

\* A quiescence path without the verify hook.
Quiesce_NoVerify(b) == CompleteTurn(b)

\* The quiescence path: "if self.verify_policy.auto_verify and workspace_dirty"
Quiesce(b) ==
    IF cfg.auto_verify /\ b.th.dirty THEN StartVerify(b) ELSE CompleteTurn(b)

\* The end of one iteration of "for _ in range(max_turns)" that goes on
NextIteration(b) == [b EXCEPT !.th.iter = @ + 1, !.th.pc = "loop", !.th.cur = NoCall,
                               !.th.queue = <<>>]

\* A per-call loop always followed by the next iteration.
AfterCalls_NextIteration(b) == NextIteration(b)

\* After the per-call loop: "if new_tool_calls == 0"
AfterCalls(b) == IF b.th.newCalls = 0 THEN Quiesce(b) ELSE NextIteration(b)

\* The head of the per-call loop for the next accepted call: the approval
\* request, or tool_call_started and the invocation.
StartCall(b) ==
    LET call == Head(b.th.queue)
        b1   == [b EXCEPT !.th.cur = call, !.th.queue = Tail(@), !.th.newCalls = @ + 1]
    IN  IF RequiresApproval(ToolDefinition(call.name), cfg.policy)
        THEN LET s  == SetTurnStatus([b1.th.sess EXCEPT !.status = "waiting_approval"],
                                     b1.th.turn, "waiting_approval")
                 b2 == UpdateLocal(SetLocal(b1, s))
             IN  IF CanRequire(b2.ap, call.id)
                 THEN LET b3 == Emit([b2 EXCEPT !.ap = @ \cup {call.id}],
                                     "approval_requested", call.id, "")
                      IN  [b3 EXCEPT !.th.pc = "waitenter"]
                 ELSE FailTurn(b2, "approval already pending")
        ELSE LET b2 == Emit(b1, "tool_call_started", call.id, "")
             IN  [b2 EXCEPT !.th.pc = "invoking", !.inv = Append(@, call)]

(***************************************************************************)
(* The inputs: what the model may answer, what a tool may return.          *)
(***************************************************************************)
InAB == <<"{", "a", ":", "1", ",", "b", ":", "2", "}">>
InABsp == <<"{", WS, "a", ":", WS, "1", ",", "b", ":", "2", WS, "}">>
InBA == <<"{", "b", ":", "2", ",", "a", ":", "1", "}">>

\* The tool calls of one model response, as (name, input) pairs: no call,
\* one call, or two calls of which the second repeats the first, follows
\* it with another tool, or names a tool the registry lacks.
ModelResponses(mode) ==
    {<<>>,
     <<<<"repo_tree", InAB>>>>, <<<<"shell", InAB>>>>, <<<<"nosuch", InAB>>>>,
     <<<<"repo_tree", InAB>>, <<"repo_tree", InABsp>>>>,
     <<<<"shell", InAB>>, <<"repo_tree", InAB>>>>,
     <<<<"repo_tree", InAB>>, <<"nosuch", InAB>>>>}
    \cup (IF mode = "spec"
          THEN {<<<<"write_spec", InAB>>>>, <<<<"write_spec", InAB>>, <<"repo_tree", InAB>>>>}
          ELSE {})

Min(a, b) == IF a < b THEN a ELSE b

\* A tool returns ok, returns ok=false, or raises.
ToolOutcomes == {"ok", "fail", "raise"}
\* VerifyTool.invoke catches what its commands raise: ok or ok=false.
VerifyOutcomes == {"ok", "fail"}
\* The outcomes still within the bound on failures.
Allowed(outs) == IF fails > 0 THEN outs ELSE {"ok"}
Failures(out, vok) == IF out = "ok" /\ vok THEN 0 ELSE 1

\* ai-kit tool calls as ToolCalls with their ids (_run_model)
MakeCalls(kinds, firstId) ==
    [i \in 1..Len(kinds) |->
        [id |-> firstId + i - 1, name |-> kinds[i][1], input |-> kinds[i][2]]]

RECURSIVE EmitSkipped(_, _)
\* SessionRunner._append_skipped_tool for every skipped call
EmitSkipped(b, calls) ==
    IF calls = <<>> THEN b
    ELSE EmitSkipped(
            Emit(Emit(b, "tool_call_skipped", Head(calls).id, ""),
                 "tool_call_completed", Head(calls).id, "skipped"),
            Tail(calls))

(***************************************************************************)
(* SessionRunner.start_turn                                                *)
(***************************************************************************)
\* A start_turn that never finds the marker.
AlreadyRunning_Never(sid) == FALSE

\* "if session_id in self._running: raise RuntimeError"
AlreadyRunning(sid) == sid \in running

FreeSlot ==
    CHOOSE e \in Executors :
        ex[e].pc = "idle" /\ \A f \in Executors : ex[f].pc = "idle" => e <= f

\* An accepted start_turn: the marker, a fresh token in the store, the thread.
StartTurn(tid, tok) ==
    /\ ~AlreadyRunning(SID)
    /\ starts > 0
    /\ \E e \in Executors : ex[e].pc = "idle"
    /\ running' = running \cup {SID}
    /\ cancelTok' = tok
    /\ ex' = [ex EXCEPT ![FreeSlot] = [IdleThread EXCEPT !.pc = "begin", !.turn = tid, !.tok = tok]]
    /\ starts' = starts - 1

(***************************************************************************)
(* SessionRunner._execute_turn, one action per stretch between two         *)
(* points where the thread blocks.                                         *)
(***************************************************************************)
\* From the thread's start to the loop.  The session was created with its
\* spec_path and the spec file exists, so spec mode adds no event here.
T_Begin(e) ==
    /\ ex[e].pc = "begin"
    /\ LET b0 == Bundle(e)
           b1 == [b0 EXCEPT !.th.sess = b0.st]
           tid == b0.th.turn
       IN  IF \A i \in 1..Len(b1.st.turns) : b1.st.turns[i].id # tid
           THEN Commit(FailTurn(b1, "turn not found"))
           ELSE LET s  == SetTurn([b1.th.sess EXCEPT !.status = "active"], tid, "running", "")
                    b2 == UpdateLocal(SetLocal(b1, s))
                    b3 == Emit(Emit(b2, "turn_started", 0, ""), "model_resolved", 0, "")
                IN  Commit([b3 EXCEPT !.th.pc = "loop"])
    /\ UNCHANGED <<shared, quota>>

\* A loop that goes on however many iterations it has made.
T_LoopHead_NoLimit(e) ==
    /\ ex[e].pc = "loop"
    /\ LET b == Bundle(e) IN
       IF b.th.tok \in cancelled
       THEN Commit(CancelTurn(b))
       ELSE Commit([b EXCEPT !.th.pc = "model"])
    /\ UNCHANGED <<shared, quota>>

\* The head of an iteration: the iteration limit and the cancel check.
T_LoopHead(e) ==
    /\ ex[e].pc = "loop"
    /\ LET b == Bundle(e) IN
       IF b.th.iter >= MaxIterations
       THEN Commit(FailTurn(b, "max turn iterations reached"))
       ELSE IF b.th.tok \in cancelled
       THEN Commit(CancelTurn(b))
       ELSE Commit([b EXCEPT !.th.pc = "model"])
    /\ UNCHANGED <<shared, quota>>

\* The model answers: _run_model's events, the cost, the dedup loop, the
\* assistant message, and the branch on "if not tool_calls".
ModelAnswer(b, text, kinds) ==
    LET calls == MakeCalls(kinds, b.id)
        b1 == [b EXCEPT !.id = @ + Len(kinds)]
        b2 == Emit(IF text THEN Emit(b1, "model_output_delta", 0, "") ELSE b1,
                   "model_output_completed", 0, "")
        b3 == IF cfg.cost THEN UpdateLocal(b2) ELSE b2
        d  == DedupCalls(calls, b3.th.seen, Registry(b3.th.sess.mode))
        b4 == [EmitSkipped(b3, d.skipped) EXCEPT !.th.seen = d.seen]
        m  == Msg(b4.id, "assistant", 0, text, [i \in 1..Len(d.run) |-> d.run[i].id])
        b5 == IF text \/ d.run # <<>>
              THEN LocalAppend(
                     Emit(AppendMessage([b4 EXCEPT !.id = @ + 1], m),
                          "message_added", m.id, "assistant"), m)
              ELSE b4
        b6 == [b5 EXCEPT !.th.queue = d.run, !.th.newCalls = 0]
    IN  IF d.unknown THEN FailTurn(b4, "unknown tool")
        ELSE IF calls = <<>> THEN Quiesce(b6)
        ELSE IF d.run = <<>> THEN AfterCalls(b6)
        ELSE StartCall(b6)

T_ModelReturn(e) ==
    /\ ex[e].pc = "model"
    /\ answers > 0
    /\ answers' = answers - 1
    /\ \E text \in (IF texts > 0 THEN BOOLEAN ELSE {FALSE}) :
       \E kinds \in {r \in ModelResponses(ex[e].sess.mode) : Len(r) <= Min(MaxResp, budget)} :
          /\ Commit(ModelAnswer(Bundle(e), text, kinds))
          /\ budget' = budget - Len(kinds)
          /\ texts' = IF text THEN texts - 1 ELSE texts
    /\ UNCHANGED <<shared, fails>>

\* kit.generate raises
T_ModelError(e) ==
    /\ ex[e].pc = "model"
    /\ Commit(FailTurn(Bundle(e), "model error"))
    /\ UNCHANGED <<shared, quota>>

\* Store.wait_for_session_approval, its first lines: the waiter is looked
\* up once, under the lock; a missing entry raises ValueError.
WaitLookup(ap, key) == key \in ap

\* Store.wait_for_session_approval, its polling loop: the waiter's event
\* is tested before the token.
WaitResult(key, tok) ==
    IF key \in DOMAIN decided THEN "decided"
    ELSE IF tok \in cancelled THEN "canceled"
    ELSE "blocked"

\* "decision.action" in the engine: an attribute of an ApprovalDecision;
\* a dict has no such attribute (AttributeError).
DecisionAction(d) == IF d.shape = "object" THEN d.action ELSE "AttributeError"

T_WaitEnter(e) ==
    /\ ex[e].pc = "waitenter"
    /\ LET b == Bundle(e) IN
       IF WaitLookup(b.ap, b.th.cur.id)
       THEN Commit([b EXCEPT !.th.pc = "wait"])
       ELSE Commit(FailTurn(b, "no approval pending"))
    /\ UNCHANGED <<shared, quota>>

\* The wait returns or raises, and the engine acts on the decision.
Decide(b, res) ==
    LET call == b.th.cur IN
    IF res = "canceled" THEN FailTurn(b, "canceled")
    ELSE LET a == DecisionAction(decided[call.id]) IN
         IF a = "AttributeError" THEN FailTurn(b, "AttributeError")
         ELSE IF a = "deny"
         THEN FailTurn(Emit(b, "approval_denied", call.id, ""), "approval denied")
         ELSE LET s  == SetTurnStatus([b.th.sess EXCEPT !.status = "active"],
                                      b.th.turn, "running")
                  b1 == UpdateLocal(SetLocal(b, s))
                  b2 == Emit(Emit(b1, "approval_granted", call.id, ""),
                             "tool_call_started", call.id, "")
              IN  [b2 EXCEPT !.th.pc = "invoking", !.inv = Append(@, call)]

\* A wait that looks at the waiter only, never at the token.
T_WaitPoll_NoToken(e) ==
    /\ ex[e].pc = "wait"
    /\ ex[e].cur.id \in DOMAIN decided
    /\ Commit(Decide(Bundle(e), "decided"))
    /\ UNCHANGED <<shared, quota>>

T_WaitPoll(e) ==
    /\ ex[e].pc = "wait"
    /\ WaitResult(ex[e].cur.id, ex[e].tok) # "blocked"
    /\ Commit(Decide(Bundle(e), WaitResult(ex[e].cur.id, ex[e].tok)))
    /\ UNCHANGED <<shared, quota>>

\* _invoke_spec_validate, with the outcome vok of the validation
SpecValidate(b, vok) ==
    LET call == [id |-> b.id, name |-> "validate_spec", input |-> <<"{", "}">>]
        m    == Msg(b.id + 1, "tool", call.id, TRUE, <<>>)
        b1   == Emit([b EXCEPT !.id = @ + 2, !.inv = Append(@, call)],
                     "tool_call_started", call.id, "")
        b2   == Emit(Emit(b1, "tool_call_completed", call.id, IF vok THEN "ok" ELSE "fail"),
                     "spec_validated", 0, IF vok THEN "ok" ELSE "fail")
        b3   == Emit(AppendMessage(b2, m), "message_added", m.id, "tool")
    IN  LocalAppend(b3, m)

\* A per-call loop that marks the workspace dirty only after a result with ok.
ToolReturned_DirtyWhenOk(b, out, vok) ==
    LET call == b.th.cur
        def  == ToolDefinition(call.name)
        specWrite == b.th.sess.mode = "spec" /\ call.name = "write_spec"
        m    == Msg(b.id, "tool", call.id, TRUE, <<>>)
        b1   == Emit(b, "tool_call_completed", call.id, out)
        b2   == LocalAppend(
                  Emit(AppendMessage([b1 EXCEPT !.id = @ + 1], m),
                       "message_added", m.id, "tool"), m)
        b3   == IF def.kind \in {"write", "exec"} /\ ~specWrite /\ out = "ok"
                THEN [b2 EXCEPT !.th.dirty = TRUE] ELSE b2
        b4   == IF specWrite THEN SpecValidate(b3, vok) ELSE b3
        goOn == IF specWrite /\ ~vok THEN TRUE ELSE out = "ok"
    IN  IF goOn /\ b4.th.queue # <<>> THEN StartCall(b4) ELSE AfterCalls(b4)

\* The tool returned: the rest of the per-call loop's body, and what
\* follows it.  A raised exception is turned into a result with ok=false.
ToolReturned(b, out, vok) ==
    LET call == b.th.cur
        def  == ToolDefinition(call.name)
        specWrite == b.th.sess.mode = "spec" /\ call.name = "write_spec"
        m    == Msg(b.id, "tool", call.id, TRUE, <<>>)
        b1   == Emit(b, "tool_call_completed", call.id, out)
        b2   == LocalAppend(
                  Emit(AppendMessage([b1 EXCEPT !.id = @ + 1], m),
                       "message_added", m.id, "tool"), m)
        b3   == IF def.kind \in {"write", "exec"} /\ ~specWrite
                THEN [b2 EXCEPT !.th.dirty = TRUE] ELSE b2
        b4   == IF specWrite THEN SpecValidate(b3, vok) ELSE b3
        goOn == IF specWrite /\ ~vok THEN TRUE ELSE out = "ok"
    IN  IF goOn /\ b4.th.queue # <<>> THEN StartCall(b4) ELSE AfterCalls(b4)

T_ToolReturn(e) ==
    /\ ex[e].pc = "invoking"
    /\ \E out \in Allowed(ToolOutcomes) :
       \E vok \in (IF ex[e].sess.mode = "spec" /\ ex[e].cur.name = "write_spec"
                   THEN (IF fails > 0 THEN BOOLEAN ELSE {TRUE})
                   ELSE {TRUE}) :
          /\ Commit(ToolReturned(Bundle(e), out, vok))
          /\ fails' = fails - Failures(out, vok)
    /\ UNCHANGED <<shared, budget, texts, answers>>

\* The verify hook's approval wait.
T_VerifyWaitEnter(e) ==
    /\ ex[e].pc = "vwaitenter"
    /\ LET b == Bundle(e) IN
       IF WaitLookup(b.ap, b.th.cur.id)
       THEN Commit([b EXCEPT !.th.pc = "vwait"])
       ELSE Commit(FailTurn(b, "no approval pending"))
    /\ UNCHANGED <<shared, quota>>

VerifyDecide(b, res) ==
    LET call == b.th.cur IN
    IF res = "canceled" THEN FailTurn(b, "canceled")
    ELSE LET a == DecisionAction(decided[call.id]) IN
         IF a = "AttributeError" THEN FailTurn(b, "AttributeError")
         ELSE IF a = "deny" THEN FailTurn(b, "verification denied")
         ELSE LET b1 == Emit(b, "tool_call_started", call.id, "")
              IN  [b1 EXCEPT !.th.pc = "vinvoking", !.inv = Append(@, call)]

T_VerifyWaitPoll(e) ==
    /\ ex[e].pc = "vwait"
    /\ WaitResult(ex[e].cur.id, ex[e].tok) # "blocked"
    /\ Commit(VerifyDecide(Bundle(e), WaitResult(ex[e].cur.id, ex[e].tok)))
    /\ UNCHANGED <<shared, quota>>

\* A verify hook whose result is not looked at.
VerifyReturned_IgnoreOk(b, out) ==
    LET call == b.th.cur
        m    == Msg(b.id, "tool", call.id, TRUE, <<>>)
        b1   == Emit(b, "tool_call_completed", call.id, out)
        b2   == LocalAppend(
                  Emit(AppendMessage([b1 EXCEPT !.id = @ + 1], m),
                       "message_added", m.id, "tool"), m)
    IN  CompleteTurn(b2)

\* The verify tool returned: the rest of _invoke_verify and the caller's
\* "if not ok: continue", else _complete_turn.
VerifyReturned(b, out) ==
    LET call == b.th.cur
        m    == Msg(b.id, "tool", call.id, TRUE, <<>>)
        b1   == Emit(b, "tool_call_completed", call.id, out)
        b2   == LocalAppend(
                  Emit(AppendMessage([b1 EXCEPT !.id = @ + 1], m),
                       "message_added", m.id, "tool"), m)
    IN  IF out = "ok" THEN CompleteTurn(b2) ELSE NextIteration(b2)

T_VerifyReturn(e) ==
    /\ ex[e].pc = "vinvoking"
    /\ \E out \in Allowed(VerifyOutcomes) :
          /\ Commit(VerifyReturned(Bundle(e), out))
          /\ fails' = fails - Failures(out, TRUE)
    /\ UNCHANGED <<shared, budget, texts, answers>>

\* A thread that ends without discarding the marker.
T_Exit_KeepMarker(e) ==
    /\ ex[e].pc = "exit"
    /\ ex' = [ex EXCEPT ![e] = IdleThread]
    /\ aliasOf' = IF aliasOf = e THEN 0 ELSE aliasOf
    /\ UNCHANGED <<cfg, running, stored, approvals, decided, cancelTok, cancelled, events,
                   invoked, nextId, quota, nposts, api, starts, ncancels>>

\* The finally clause: the marker is discarded and the thread ends.
T_Exit(e) ==
    /\ ex[e].pc = "exit"
    /\ running' = running \ {SID}
    /\ ex' = [ex EXCEPT ![e] = IdleThread]
    /\ aliasOf' = IF aliasOf = e THEN 0 ELSE aliasOf
    /\ UNCHANGED <<cfg, stored, approvals, decided, cancelTok, cancelled, events, invoked,
                   nextId, quota, nposts, api, starts, ncancels>>

(***************************************************************************)
(* The HTTP handlers of a session (internal/api/server.py) and the Store   *)
(* operations they call.  A handler runs on the event loop, the engine on  *)
(* its own thread.                                                         *)
(***************************************************************************)
ApiEvent(type, tcid) == Event(type, tcid, "api", 0, "")

\* The requests still within the bound.
MoreRequests == nposts + ncancels < MaxRequests

\* The event loop's thread outside the messages handler.
ApiIdle == [pc |-> "idle", sess |-> NoSession]

\* POST /v1/sessions/{id}/messages, up to the get_session of append_message:
\* the handler holds a copy of the stored session.
PostMessageGet ==
    /\ api.pc = "idle"
    /\ nposts < MaxPosts /\ MoreRequests
    /\ api' = [pc |-> "posting", sess |-> stored]
    /\ nposts' = nposts + 1
    /\ UNCHANGED <<cfg, running, ex, stored, aliasOf, approvals, decided, cancelTok,
                   cancelled, events, invoked, nextId, quota, starts, ncancels>>

\* The rest of the handler: append_message's update_session with its copy,
\* message_added, add_turn, and start_turn unless auto_run is false.
\* start_turn's RuntimeError leaves the message and the turn in the store.
PostMessage(auto) ==
    /\ api.pc = "posting"
    /\ api' = ApiIdle
    /\ LET mid == nextId
           tid == nextId + 1
           tok == nextId + 2
           s1  == [api.sess EXCEPT !.messages = Append(@, Msg(mid, "user", 0, TRUE, <<>>))]
           s2  == [s1 EXCEPT !.turns = Append(@, NewTurn(tid))]
       IN  /\ stored' = s2
           /\ aliasOf' = 0
           /\ events' = Append(events, ApiEvent("message_added", mid))
           /\ nextId' = nextId + 3
           /\ IF auto /\ ~AlreadyRunning(SID)
              THEN StartTurn(tid, tok)
              ELSE UNCHANGED <<running, cancelTok, ex, starts>>
    /\ UNCHANGED <<cfg, approvals, decided, cancelled, invoked, quota, nposts, ncancels>>

\* POST /v1/sessions/{id}/turns/{tid}/retry
Retry(tid) ==
    /\ api.pc = "idle"
    /\ StartTurn(tid, nextId)
    /\ nextId' = nextId + 1
    /\ UNCHANGED <<cfg, stored, aliasOf, approvals, decided, cancelled, events, invoked,
                   quota, nposts, api, ncancels>>

\* Store.approve_session_tool_call: the waiter is resolved with the decision
\* and removed from the map; a missing key raises ValueError.
HasWaiter(ap, key) == key \in ap

\* An approve that leaves the waiter in the map.
DelWaiter_Keep(ap, key) == ap

\* "del self._session_approvals[session_id][tool_call_id]" (and the run's)
DelWaiter(ap, key) == ap \ {key}

ApproveSessionToolCall(key, decision) ==
    /\ HasWaiter(approvals, key)
    /\ decided' = (key :> decision) @@ decided
    /\ approvals' = DelWaiter(approvals, key)

\* POST /v1/sessions/{id}/approve: the decision is passed as a dict, and the
\* handler appends approval_granted or approval_denied itself.
SessionApprove(key, action) ==
    /\ api.pc = "idle"
    /\ ApproveSessionToolCall(key, [shape |-> "dict", action |-> action])
    /\ events' = Append(events,
                        ApiEvent(IF action = "deny" THEN "approval_denied"
                                 ELSE "approval_granted", key))
    /\ UNCHANGED <<cfg, running, ex, stored, aliasOf, cancelTok, cancelled, invoked,
                   nextId, quota, nposts, api, starts, ncancels>>

\* Store.approve_session_tool_call called with an ApprovalDecision, as its
\* signature declares.
StoreApprove(key, action) ==
    /\ ApproveSessionToolCall(key, [shape |-> "object", action |-> action])
    /\ UNCHANGED <<cfg, running, ex, stored, aliasOf, cancelTok, cancelled, events,
                   invoked, nextId, quota, nposts, api, starts, ncancels>>

\* Store.cancel_session
CancelSession(s) ==
    IF s.status \in {"active", "waiting_approval"}
    THEN [s EXCEPT !.status = "canceled",
                   !.error = IF s.error = "" THEN "canceled" ELSE s.error]
    ELSE s

\* POST /v1/sessions/{id}/cancel
SessionCancel ==
    /\ api.pc = "idle"
    /\ ncancels < MaxCancels /\ MoreRequests
    /\ cancelled' = IF cancelTok # 0 THEN cancelled \cup {cancelTok} ELSE cancelled
    /\ stored' = CancelSession(stored)
    /\ aliasOf' = IF stored.status \in {"active", "waiting_approval"} THEN 0 ELSE aliasOf
    /\ events' = Append(events, ApiEvent("session_canceled", 0))
    /\ ncancels' = ncancels + 1
    /\ UNCHANGED <<cfg, running, ex, approvals, decided, cancelTok, invoked, nextId,
                   quota, nposts, api, starts>>

(***************************************************************************)
(* The specification of a session: one session, created through the API.   *)
(***************************************************************************)
AltPolicy == [require_for_kinds |-> {}, require_for_tools |-> {"repo_tree"}]

Configs ==
    {[mode |-> "chat", policy |-> DefaultPolicy, auto_verify |-> TRUE, cost |-> TRUE],
     [mode |-> "spec", policy |-> DefaultPolicy, auto_verify |-> TRUE, cost |-> FALSE],
     [mode |-> "chat", policy |-> AltPolicy, auto_verify |-> TRUE, cost |-> FALSE]}

\* The inputs of a behaviour: one long turn, or several short ones.
Quotas ==
    {[starts |-> 1, calls |-> MaxCalls, answers |-> MaxAnswers, fails |-> MaxFails,
      texts |-> MaxTexts],
     [starts |-> MaxStarts, calls |-> MaxCalls - 1, answers |-> MaxAnswers - 1,
      fails |-> MaxFails - 1, texts |-> MaxTexts]}

NoDedup == [done |-> FALSE, run |-> <<>>, skipped |-> <<>>]

KeyIdle == kcalls = <<>> /\ kout = NoDedup

Writers == {"engine", "loop"}
Subscribers == 1..MaxSubs
IdleWriter == [pc |-> "idle", ev |-> 0, subs |-> {}]
NoRead == [done |-> FALSE, n |-> 0, total |-> 0, out |-> <<>>]

EventsIdle ==
    /\ ekind = "session"
    /\ elog = <<>>
    /\ esubs = {}
    /\ edelivered = [s \in Subscribers |-> <<>>]
    /\ ewriter = [w \in Writers |-> IdleWriter]
    /\ enext = 1
    /\ eread = NoRead
    /\ esince = [s \in Subscribers |-> 0]

Variants == {"run", "session"}
Keys == {"k1", "k2"}
NoOp == [variant |-> "", op |-> "", key |-> "", result |-> ""]

ApprovalIdle ==
    /\ runApprovals = {}
    /\ areq = [x \in Variants \X Keys |-> 0]
    /\ aok = [x \in Variants \X Keys |-> 0]
    /\ alast = NoOp

(***************************************************************************)
(* A wait on an approval waiter: the store, the token and the thread       *)
(* before any call.                                                        *)
(***************************************************************************)
NoToken == [set |-> FALSE, reason |-> ""]
NoWait == [pc |-> "idle", key |-> "", sig |-> FALSE, entry |-> 0, out |-> "", n |-> 0]

WaitIdle ==
    /\ wvariant = "session"
    /\ wmap = [k \in Keys |-> 0]
    /\ wobjs = <<>>
    /\ wtok = NoToken
    /\ wthr = NoWait
    /\ whist = <<>>

\* A run record as create_run makes it, and no engine thread
NewRun == [status |-> "queued", error |-> "", steps |-> <<>>]

RunIdle ==
    /\ rplan = <<>>
    /\ rstored = NewRun
    /\ rthr = [pc |-> "none", idx |-> 0]
    /\ rwaiters = {}
    /\ rresolved = {}
    /\ rcancelled = FALSE
    /\ rlog = <<>>

\* The threads that update one session: the engine's and the event loop's
PThreads == {"engine", "loop"}

\* A session with one turn, as POST /v1/sessions/{id}/messages leaves it
NewRecord == [turn |-> "pending", msgs |-> 1]

PIdle == [pc |-> "idle", rec |-> NewRecord]

PersistIdle ==
    /\ pmem = NewRecord
    /\ pdisk = NewRecord
    /\ pthr = [t \in PThreads |-> [pc |-> "gone", rec |-> NewRecord]]
    /\ prestarts = 0

\* Optional[...] fields: None, or a value
None == [none |-> TRUE]
NoErr == "None"

\* create_session: Session(status="active", mode=mode or "chat", messages=[],
\* turns=[]) with cost and error left at their default, None
NewSession(mode) ==
    [status |-> "active", mode |-> mode,
     messages |-> [none |-> FALSE, items |-> <<>>],
     turns |-> [none |-> FALSE, items |-> <<>>],
     cost |-> None, error |-> NoErr]

\* asdict + json.dumps, then json.loads: every field of the dataclass is a key
\* of the object; a list is an array, a nested dataclass an object, None null.
SessionToDict(s) ==
    [status |-> s.status, mode |-> s.mode, messages |-> s.messages,
     turns |-> s.turns, cost |-> s.cost, error |-> s.error]

LoadIdle ==
    /\ lmem = NewSession("chat")
    /\ lfile = [by |-> "create", data |-> SessionToDict(NewSession("chat"))]
    /\ lnew = {}

ExtraIdle == WaitIdle /\ RunIdle /\ PersistIdle /\ LoadIdle

EngineInit ==
    /\ cfg \in Configs
    /\ running = {}
    /\ ex = [e \in Executors |-> IdleThread]
    /\ stored = [status |-> "active", error |-> "", mode |-> cfg.mode,
                 messages |-> <<>>, turns |-> <<>>]
    /\ aliasOf = 0
    /\ approvals = {}
    /\ decided = <<>>
    /\ cancelTok = 0
    /\ cancelled = {}
    /\ events = <<ApiEvent("session_created", 0)>>
    /\ invoked = <<>>
    /\ nextId = 1
    /\ \E q \in Quotas :
          /\ starts = q.starts
          /\ budget = q.calls
          /\ answers = q.answers
          /\ fails = q.fails
          /\ texts = q.texts
    /\ nposts = 0
    /\ api = ApiIdle
    /\ ncancels = 0

\* A session nobody posts to: the state the other specifications keep it in.
EngineIdle ==
    /\ cfg = [mode |-> "chat", policy |-> DefaultPolicy, auto_verify |-> TRUE, cost |-> TRUE]
    /\ running = {}
    /\ ex = [e \in Executors |-> IdleThread]
    /\ stored = [status |-> "active", error |-> "", mode |-> "chat",
                 messages |-> <<>>, turns |-> <<>>]
    /\ aliasOf = 0
    /\ approvals = {}
    /\ decided = <<>>
    /\ cancelTok = 0
    /\ cancelled = {}
    /\ events = <<ApiEvent("session_created", 0)>>
    /\ invoked = <<>>
    /\ nextId = 1
    /\ starts = 0 /\ budget = 0 /\ answers = 0 /\ fails = 0 /\ texts = 0
    /\ nposts = MaxPosts
    /\ api = ApiIdle
    /\ ncancels = MaxCancels

Init == EngineInit /\ KeyIdle /\ EventsIdle /\ ApprovalIdle /\ ExtraIdle

TurnIds == {stored.turns[i].id : i \in 1..Len(stored.turns)}

\* A step of the session leaves the other specifications' variables alone.
SessionOnly == UNCHANGED <<keyVars, eventVars, approvalVars, extraVars>>

Next ==
    \/ SessionOnly /\ PostMessageGet
    \/ SessionOnly /\ \E auto \in BOOLEAN : PostMessage(auto)
    \/ SessionOnly /\ \E tid \in TurnIds : Retry(tid)
    \/ SessionOnly /\ \E k \in approvals, a \in {"approve", "deny"} : SessionApprove(k, a)
    \/ SessionOnly /\ \E k \in approvals, a \in {"approve", "deny"} : StoreApprove(k, a)
    \/ SessionOnly /\ SessionCancel
    \/ SessionOnly /\ \E e \in Executors : T_Begin(e)
    \/ SessionOnly /\ \E e \in Executors : T_LoopHead(e)
    \/ SessionOnly /\ \E e \in Executors : T_ModelReturn(e)
    \/ SessionOnly /\ \E e \in Executors : T_ModelError(e)
    \/ SessionOnly /\ \E e \in Executors : T_WaitEnter(e)
    \/ SessionOnly /\ \E e \in Executors : T_WaitPoll(e)
    \/ SessionOnly /\ \E e \in Executors : T_ToolReturn(e)
    \/ SessionOnly /\ \E e \in Executors : T_VerifyWaitEnter(e)
    \/ SessionOnly /\ \E e \in Executors : T_VerifyWaitPoll(e)
    \/ SessionOnly /\ \E e \in Executors : T_VerifyReturn(e)
    \/ SessionOnly /\ \E e \in Executors : T_Exit(e)

Spec == Init /\ [][Next]_vars

(***************************************************************************)
(* The same session with the inputs of one long turn: the model answers    *)
(* more often than the loop allows, and verification may fail every time.  *)
(***************************************************************************)
LongQuota ==
    [starts |-> 1, calls |-> 1, answers |-> MaxIterations + 1, fails |-> MaxIterations,
     texts |-> 0]

LongInit ==
    /\ cfg \in Configs
    /\ running = {}
    /\ ex = [e \in Executors |-> IdleThread]
    /\ stored = [status |-> "active", error |-> "", mode |-> cfg.mode,
                 messages |-> <<>>, turns |-> <<>>]
    /\ aliasOf = 0
    /\ approvals = {}
    /\ decided = <<>>
    /\ cancelTok = 0
    /\ cancelled = {}
    /\ events = <<ApiEvent("session_created", 0)>>
    /\ invoked = <<>>
    /\ nextId = 1
    /\ starts = LongQuota.starts
    /\ budget = LongQuota.calls
    /\ answers = LongQuota.answers
    /\ fails = LongQuota.fails
    /\ texts = LongQuota.texts
    /\ nposts = 0
    /\ api = ApiIdle
    /\ ncancels = 0
    /\ KeyIdle /\ EventsIdle /\ ApprovalIdle /\ ExtraIdle

SpecLong == LongInit /\ [][Next]_vars

(***************************************************************************)
(* The session with its threads scheduled: a thread that was started runs, *)
(* a call of the model, of a tool or of the verify hook returns (with a     *)
(* result or by raising), and the poll of an approval wait is taken once   *)
(* the waiter is resolved or the token fired.  Nothing makes a client send *)
(* a request.                                                               *)
(***************************************************************************)
ThreadStep(e) ==
    \/ T_Begin(e) \/ T_LoopHead(e) \/ T_ModelReturn(e) \/ T_ModelError(e)
    \/ T_WaitEnter(e) \/ T_WaitPoll(e) \/ T_ToolReturn(e)
    \/ T_VerifyWaitEnter(e) \/ T_VerifyWaitPoll(e) \/ T_VerifyReturn(e) \/ T_Exit(e)

ThreadsRun == \A e \in Executors : WF_vars(SessionOnly /\ ThreadStep(e))

\* The inputs of a short session: one turn, one tool call, two answers of the
\* model, in chat mode under the default approval policy.
LiveQuota == [starts |-> 1, calls |-> 1, answers |-> 2, fails |-> 0, texts |-> 0]

LiveInit ==
    /\ cfg \in {c \in Configs : c.mode = "chat" /\ c.policy = DefaultPolicy}
    /\ running = {}
    /\ ex = [e \in Executors |-> IdleThread]
    /\ stored = [status |-> "active", error |-> "", mode |-> cfg.mode,
                 messages |-> <<>>, turns |-> <<>>]
    /\ aliasOf = 0
    /\ approvals = {}
    /\ decided = <<>>
    /\ cancelTok = 0
    /\ cancelled = {}
    /\ events = <<ApiEvent("session_created", 0)>>
    /\ invoked = <<>>
    /\ nextId = 1
    /\ starts = LiveQuota.starts
    /\ budget = LiveQuota.calls
    /\ answers = LiveQuota.answers
    /\ fails = LiveQuota.fails
    /\ texts = LiveQuota.texts
    /\ nposts = 0
    /\ api = ApiIdle
    /\ ncancels = 0
    /\ KeyIdle /\ EventsIdle /\ ApprovalIdle /\ ExtraIdle

SpecLive == LiveInit /\ [][Next]_vars /\ ThreadsRun

(***************************************************************************)
(* The call key of the dedup loop, applied to the calls of one response.   *)
(***************************************************************************)
KeyInputs ==
    {InAB, InABsp, InBA, <<>>, <<"null">>, <<"{", "}">>, <<WS, "{", WS, "}">>,
     <<"a">>, <<WS, "a">>, <<"{", "a">>, <<"{", "a", ":", "1", "}">>,
     <<"{", "a", ":", "1", ",", "a", ":", "2", "}">>,
     <<"{", "a", ":", "2", "}">>}

KeyNames == {"repo_tree", "search"}

KeyInit ==
    /\ EngineIdle /\ EventsIdle /\ ApprovalIdle /\ ExtraIdle
    /\ kcalls \in {<<[id |-> 1, name |-> n1, input |-> i1],
                     [id |-> 2, name |-> n2, input |-> i2]>> :
                      n1 \in KeyNames, n2 \in KeyNames, i1 \in KeyInputs, i2 \in KeyInputs}
    /\ kout = NoDedup

\* The dedup loop of _execute_turn on the calls of the first response of a turn.
K_Dedup ==
    /\ ~kout.done
    /\ LET d == DedupCalls(kcalls, {}, BaseTools)
       IN  kout' = [done |-> TRUE, run |-> d.run, skipped |-> d.skipped]
    /\ UNCHANGED kcalls

KeyNext == K_Dedup /\ UNCHANGED <<engineVars, eventVars, approvalVars, extraVars>>

SpecKey == KeyInit /\ [][KeyNext]_vars

(***************************************************************************)
(* Store.append_event / Store.append_session_event and the subscribers of  *)
(* one id.  The engine thread and the event loop's thread (the handlers)   *)
(* both append; a subscriber's handler passes the event to the stream's    *)
(* queue, so it is delivered in the order of the handler's calls.          *)
(***************************************************************************)
EventsInit ==
    /\ EngineIdle /\ KeyIdle /\ ApprovalIdle /\ ExtraIdle
    /\ ekind \in Variants
    /\ elog = <<>>
    /\ esubs = {}
    /\ edelivered = [s \in Subscribers |-> <<>>]
    /\ ewriter = [w \in Writers |-> IdleWriter]
    /\ enext = 1
    /\ eread = NoRead
    /\ esince = [s \in Subscribers |-> 0]

\* "with path.open('a') as handle: handle.write(line)"
AppendEventWrite(w) ==
    /\ ewriter[w].pc = "idle"
    /\ enext <= MaxEvents
    /\ elog' = Append(elog, enext)
    /\ enext' = enext + 1
    /\ ewriter' = [ewriter EXCEPT ![w] = [pc |-> "written", ev |-> enext, subs |-> {}]]
    /\ UNCHANGED <<esince, eread, ekind, esubs, edelivered>>

\* "with self._lock: subs = list(self._subs[id])"
AppendEventSnapshot(w) ==
    /\ ewriter[w].pc = "written"
    /\ ewriter' = [ewriter EXCEPT ![w].pc = "snapshot", ![w].subs = esubs]
    /\ UNCHANGED <<esince, eread, ekind, elog, esubs, edelivered, enext>>

\* "for handler in subs: handler(event)"
AppendEventDeliver(w) ==
    /\ ewriter[w].pc = "snapshot"
    /\ edelivered' = [s \in Subscribers |->
                        IF s \in ewriter[w].subs
                        THEN Append(edelivered[s], ewriter[w].ev)
                        ELSE edelivered[s]]
    /\ ewriter' = [ewriter EXCEPT ![w] = IdleWriter]
    /\ UNCHANGED <<esince, eread, ekind, elog, esubs, enext>>

\* Store.subscribe / subscribe_session, called by the stream on the loop's thread
Subscribe(s) ==
    /\ ewriter["loop"].pc = "idle"
    /\ s \notin esubs
    /\ esubs' = esubs \cup {s}
    /\ esince' = [esince EXCEPT ![s] = Len(elog)]
    /\ UNCHANGED <<eread, ekind, elog, edelivered, ewriter, enext>>

\* the _unsubscribe closure
Unsubscribe(s) ==
    /\ ewriter["loop"].pc = "idle"
    /\ s \in esubs
    /\ esubs' = esubs \ {s}
    /\ UNCHANGED <<esince, eread, ekind, elog, edelivered, ewriter, enext>>

\* A line of the events file that is not blank and parses as an event;
\* append_event writes the events 1, 2, ... one per line.
LineOk(line) == line # 0

\* A read loop that stops one event late.
ReadLoop_OneMore(lines, out, max_items) ==
    LET RECURSIVE rl(_, _)
        rl(ls, o) ==
            IF ls = <<>> THEN o
            ELSE IF ~LineOk(Head(ls)) THEN rl(Tail(ls), o)
            ELSE LET o1 == Append(o, Head(ls)) IN
                 IF max_items > 0 /\ Len(o1) > max_items THEN o1
                 ELSE rl(Tail(ls), o1)
    IN  rl(lines, out)

\* The loop of read_events over the lines of the file: blank and malformed
\* lines are skipped, "if max_items > 0 and len(out) >= max_items: break"
RECURSIVE ReadLoop(_, _, _)
ReadLoop(lines, out, max_items) ==
    IF lines = <<>> THEN out
    ELSE IF ~LineOk(Head(lines)) THEN ReadLoop(Tail(lines), out, max_items)
    ELSE LET o1 == Append(out, Head(lines)) IN
         IF max_items > 0 /\ Len(o1) >= max_items THEN o1
         ELSE ReadLoop(Tail(lines), o1, max_items)

\* Store.read_events / read_session_events, called by a handler on the
\* loop's thread
ReadEvents(max_items) ==
    /\ ewriter["loop"].pc = "idle"
    /\ eread' = [done |-> TRUE, n |-> max_items, total |-> Len(elog),
                 out |-> ReadLoop(elog, <<>>, max_items)]
    /\ UNCHANGED <<esince, ekind, elog, esubs, edelivered, ewriter, enext>>

EventsOnly == UNCHANGED <<engineVars, keyVars, approvalVars, extraVars>>

EventsNext ==
    \/ EventsOnly /\ \E w \in Writers : AppendEventWrite(w)
    \/ EventsOnly /\ \E w \in Writers : AppendEventSnapshot(w)
    \/ EventsOnly /\ \E w \in Writers : AppendEventDeliver(w)
    \/ EventsOnly /\ \E s \in Subscribers : Subscribe(s)
    \/ EventsOnly /\ \E s \in Subscribers : Unsubscribe(s)
    \/ EventsOnly /\ \E n \in -1..MaxEvents + 1 : ReadEvents(n)

SpecEvents == EventsInit /\ [][EventsNext]_vars

(***************************************************************************)
(* The approval operations of the Store, of a run and of a session, called *)
(* in any order.  A call that raises leaves the store as it was.           *)
(***************************************************************************)
ApprovalInit == EngineIdle /\ KeyIdle /\ EventsIdle /\ ApprovalIdle /\ ExtraIdle

Done(v, op, k, res) ==
    alast' = [variant |-> v, op |-> op, key |-> k, result |-> res]

\* A require_approval that replaces the waiter it finds by a new one.
RequireApproval_Overwrite(k) ==
    /\ runApprovals' = runApprovals \cup {k}
    /\ areq' = [areq EXCEPT ![<<"run", k>>] = @ + 1]
    /\ Done("run", "require", k, "ok")
    /\ UNCHANGED <<aok, approvals, decided>>

\* Store.require_approval
RequireApproval(k) ==
    /\ IF k \in runApprovals
       THEN Done("run", "require", k, "error") /\ UNCHANGED <<runApprovals, areq>>
       ELSE /\ runApprovals' = runApprovals \cup {k}
            /\ areq' = [areq EXCEPT ![<<"run", k>>] = @ + 1]
            /\ Done("run", "require", k, "ok")
    /\ UNCHANGED <<aok, approvals, decided>>

\* Store.approve
Approve(k) ==
    /\ IF HasWaiter(runApprovals, k)
       THEN /\ runApprovals' = DelWaiter(runApprovals, k)
            /\ aok' = [aok EXCEPT ![<<"run", k>>] = @ + 1]
            /\ Done("run", "approve", k, "ok")
       ELSE Done("run", "approve", k, "error") /\ UNCHANGED <<runApprovals, aok>>
    /\ UNCHANGED <<areq, approvals, decided>>

\* Store.require_session_approval
RequireSessionApproval(k) ==
    /\ IF ~CanRequire(approvals, k)
       THEN Done("session", "require", k, "error") /\ UNCHANGED <<approvals, areq>>
       ELSE /\ approvals' = approvals \cup {k}
            /\ areq' = [areq EXCEPT ![<<"session", k>>] = @ + 1]
            /\ Done("session", "require", k, "ok")
    /\ UNCHANGED <<aok, runApprovals, decided>>

\* Store.approve_session_tool_call, with its ValueError
ApproveSession(k, action) ==
    /\ IF HasWaiter(approvals, k)
       THEN /\ ApproveSessionToolCall(k, [shape |-> "object", action |-> action])
            /\ aok' = [aok EXCEPT ![<<"session", k>>] = @ + 1]
            /\ Done("session", "approve", k, "ok")
       ELSE Done("session", "approve", k, "error") /\ UNCHANGED <<approvals, decided, aok>>
    /\ UNCHANGED <<areq, runApprovals>>

\* The operations made so far stay within the bound.
MoreOps ==
    LET S == Variants \X Keys
        sum[T \in SUBSET S] ==
            IF T = {} THEN 0
            ELSE LET x == CHOOSE y \in T : TRUE IN areq[x] + aok[x] + sum[T \ {x}]
    IN  sum[S] < MaxOps

ApprovalOnly ==
    /\ MoreOps
    /\ UNCHANGED <<cfg, running, ex, stored, aliasOf, cancelTok, cancelled, events, invoked,
                   nextId, quota, nposts, api, starts, ncancels, keyVars, eventVars, extraVars>>

ApprovalNext ==
    \/ ApprovalOnly /\ \E k \in Keys : RequireApproval(k)
    \/ ApprovalOnly /\ \E k \in Keys : Approve(k)
    \/ ApprovalOnly /\ \E k \in Keys : RequireSessionApproval(k)
    \/ ApprovalOnly /\ \E k \in Keys, a \in {"approve", "deny"} : ApproveSession(k, a)

SpecApproval == ApprovalInit /\ [][ApprovalNext]_vars

(***************************************************************************)
(* Store.wait_for_approval / wait_for_session_approval: one thread waits   *)
(* on the waiter of a key while other threads register and resolve waiters *)
(* and cancel the token.                                                   *)
(***************************************************************************)
Decisions == {"approve", "deny", "none"}
Reasons == {"none", "stop"}

WaitInit ==
    /\ EngineIdle /\ KeyIdle /\ EventsIdle /\ ApprovalIdle /\ RunIdle /\ PersistIdle /\ LoadIdle
    /\ wvariant \in Variants
    /\ wmap = [k \in Keys |-> 0]
    /\ wobjs = <<>>
    /\ wtok = NoToken
    /\ wthr = [NoWait EXCEPT !.pc = "new"]
    /\ whist = <<>>

\* require_approval / require_session_approval; a duplicate key raises
W_Require(k) ==
    /\ Len(wobjs) < MaxWaiters
    /\ wmap[k] = 0
    /\ wobjs' = Append(wobjs, [set |-> FALSE, decision |-> "none"])
    /\ wmap' = [wmap EXCEPT ![k] = Len(wobjs) + 1]
    /\ UNCHANGED <<wvariant, wtok, wthr, whist>>

\* approve / approve_session_tool_call: "entry.resolve(decision)" and the del;
\* the run's waiter carries no decision
W_Approve(k, d) ==
    /\ wmap[k] # 0
    /\ wobjs' = [wobjs EXCEPT ![wmap[k]] =
                    [set |-> TRUE, decision |-> IF wvariant = "run" THEN "none" ELSE d]]
    /\ wmap' = [wmap EXCEPT ![k] = 0]
    /\ whist' = Append(whist, [op |-> "resolve", w |-> wmap[k]])
    /\ UNCHANGED <<wvariant, wtok, wthr>>

\* CancelToken.cancel(reason): the first call sets the reason and the event
W_Cancel(r) ==
    /\ ~wtok.set
    /\ wtok' = [set |-> TRUE, reason |-> IF r = "none" THEN "canceled" ELSE r]
    /\ whist' = Append(whist, [op |-> "cancel", w |-> 0])
    /\ UNCHANGED <<wvariant, wmap, wobjs, wthr>>

\* The head of the wait: the entry is looked up under the lock
W_WaitEnter(k, sig) ==
    /\ wthr.pc # "waiting"
    /\ wthr.n < MaxWaits
    /\ wthr' = IF wmap[k] = 0
               THEN [pc |-> "raised", key |-> k, sig |-> sig, entry |-> 0,
                     out |-> "no approval pending", n |-> wthr.n + 1]
               ELSE [pc |-> "waiting", key |-> k, sig |-> sig, entry |-> wmap[k],
                     out |-> "", n |-> wthr.n + 1]
    /\ UNCHANGED <<wvariant, wmap, wobjs, wtok, whist>>

\* A wait that takes the timeout of its event for the event.
PollResult_Timeout(isset, sig, cancelledNow) ==
    IF isset THEN "return" ELSE IF sig /\ cancelledNow THEN "raise" ELSE "return"

\* One round of "if entry.event.wait(timeout=0.1): return" and
\* "if signal.is_cancelled(): raise"; without a signal, "entry.event.wait()"
PollResult(isset, sig, cancelledNow) ==
    IF isset THEN "return" ELSE IF sig /\ cancelledNow THEN "raise" ELSE "blocked"

\* What the wait returns: nothing for a run, "entry.decision or
\* ApprovalDecision(action='approve')" for a session
WaitValue(variant, waiter) ==
    IF variant = "run" THEN "none"
    ELSE IF waiter.decision = "none" THEN "approve" ELSE waiter.decision

\* "raise signal.reason or CanceledError('aborted')"
CancelCause(tok) == IF tok.reason = "" THEN "aborted" ELSE tok.reason

W_WaitPoll ==
    /\ wthr.pc = "waiting"
    /\ LET res == PollResult(wobjs[wthr.entry].set, wthr.sig, wtok.set) IN
       /\ res # "blocked"
       /\ wthr' = IF res = "return"
                  THEN [wthr EXCEPT !.pc = "returned",
                                    !.out = WaitValue(wvariant, wobjs[wthr.entry])]
                  ELSE [wthr EXCEPT !.pc = "raised", !.out = CancelCause(wtok)]
    /\ UNCHANGED <<wvariant, wmap, wobjs, wtok, whist>>

WaitOnly == UNCHANGED <<engineVars, keyVars, eventVars, approvalVars, runVars, persistVars, loadVars>>

WaitNext ==
    \/ WaitOnly /\ \E k \in Keys : W_Require(k)
    \/ WaitOnly /\ \E k \in Keys, d \in Decisions : W_Approve(k, d)
    \/ WaitOnly /\ \E r \in Reasons : W_Cancel(r)
    \/ WaitOnly /\ \E k \in Keys, sig \in BOOLEAN : W_WaitEnter(k, sig)
    \/ WaitOnly /\ W_WaitPoll

\* The waiting thread is scheduled again and again: its loop polls the
\* waiter's event every 0.1 s.
SpecWait == WaitInit /\ [][WaitNext]_vars /\ WF_vars(WaitOnly /\ W_WaitPoll)

(***************************************************************************)
(* Runner._execute: one run, created and started by POST /v1/runs, with    *)
(* the approve and cancel requests of the API.                             *)
(***************************************************************************)
StepKinds == {"command", "note"}

\* A PlanStep as generate_plan returns it
PlanStep(id, kind, needs) == [id |-> id, type |-> kind, needs_approval |-> needs]

\* The plans: no step, one step, or two steps with different ids.
Plans ==
    {<<>>}
    \cup {<<PlanStep("k1", t, n)>> : t \in StepKinds, n \in BOOLEAN}
    \cup {<<PlanStep("k1", t1, n1), PlanStep("k2", t2, n2)>> :
             t1 \in StepKinds, t2 \in StepKinds, n1 \in BOOLEAN, n2 \in BOOLEAN}

RunInit ==
    /\ EngineIdle /\ KeyIdle /\ EventsIdle /\ ApprovalIdle /\ WaitIdle /\ PersistIdle /\ LoadIdle
    /\ rplan \in Plans
    /\ rstored = NewRun
    /\ rthr = [pc |-> "begin", idx |-> 0]
    /\ rwaiters = {}
    /\ rresolved = {}
    /\ rcancelled = FALSE
    /\ rlog = <<>>

\* An entry of the run's log: an event of events.ndjson, a command or patch
\* that was run ("executed"), or a call of Store.approve ("approve") or
\* Store.cancel_run ("cancel")
RunEntry(type, id) == [type |-> type, step |-> id]

\* "for item in run.steps: if item.id == step.id: item.status = ..."
SetStep(run, id, status) ==
    [run EXCEPT !.steps =
        [i \in 1..Len(run.steps) |->
            IF run.steps[i].id = id THEN [run.steps[i] EXCEPT !.status = status]
            ELSE run.steps[i]]]

\* Runner._fail_run, reached from the except clause; the finally clause is next
FailRun(err) ==
    /\ rstored' = [rstored EXCEPT !.status = "failed", !.error = err]
    /\ rthr' = [rthr EXCEPT !.pc = "exit"]

\* The head of _execute: get_run, status running, update_run
R_Begin ==
    /\ rthr.pc = "begin"
    /\ rstored' = [rstored EXCEPT !.status = "running"]
    /\ rthr' = [rthr EXCEPT !.pc = "setup"]
    /\ UNCHANGED <<rplan, rwaiters, rresolved, rcancelled, rlog>>

\* The spec file, the context, the model and the plan; each may raise.
R_Setup(ok) ==
    /\ rthr.pc = "setup"
    /\ IF ok
       THEN /\ rstored' = [rstored EXCEPT !.steps =
                              [i \in 1..Len(rplan) |->
                                  [id |-> rplan[i].id, status |-> "pending"]]]
            /\ rthr' = [pc |-> "head", idx |-> 1]
       ELSE FailRun("setup failed")
    /\ UNCHANGED <<rplan, rwaiters, rresolved, rcancelled, rlog>>

\* A loop over the steps that goes on to the end after _cancel_run.
R_Head_CancelNoReturn ==
    /\ rthr.pc = "head"
    /\ IF rthr.idx > Len(rplan)
       THEN /\ rstored' = [rstored EXCEPT !.status = "succeeded", !.error = ""]
            /\ rthr' = [rthr EXCEPT !.pc = "exit"]
       ELSE /\ rstored' = [rstored EXCEPT !.status = "canceled", !.error = ""]
            /\ rthr' = [rthr EXCEPT !.idx = Len(rplan) + 1]
    /\ UNCHANGED <<rplan, rwaiters, rresolved, rcancelled, rlog>>

\* "for step in plan.steps": the end of the loop (succeeded), the cancel
\* check, and _execute_step up to the approval request or the execution.
R_Head ==
    /\ rthr.pc = "head"
    /\ IF rthr.idx > Len(rplan)
       THEN /\ rstored' = [rstored EXCEPT !.status = "succeeded", !.error = ""]
            /\ rthr' = [rthr EXCEPT !.pc = "exit"]
            /\ rlog' = Append(rlog, RunEntry("run_succeeded", ""))
            /\ UNCHANGED rwaiters
       ELSE IF rcancelled
       THEN /\ rstored' = [rstored EXCEPT !.status = "canceled", !.error = ""]
            /\ rthr' = [rthr EXCEPT !.pc = "exit"]
            /\ rlog' = Append(rlog, RunEntry("run_canceled", ""))
            /\ UNCHANGED rwaiters
       ELSE LET step == rplan[rthr.idx] IN
            IF step.needs_approval
            THEN \* the ids of a plan differ and the run is new: require_approval
                 \* finds no waiter of this step
                 /\ rstored' = SetStep([rstored EXCEPT !.status = "waiting_approval"],
                                       step.id, "waiting_approval")
                 /\ step.id \notin rwaiters
                 /\ rwaiters' = rwaiters \cup {step.id}
                 /\ rthr' = [rthr EXCEPT !.pc = "waitenter"]
                 /\ rlog' = rlog \o <<RunEntry("step_started", step.id),
                                      RunEntry("require", step.id)>>
            ELSE /\ rstored' = SetStep(rstored, step.id, "running")
                 /\ rthr' = [rthr EXCEPT !.pc = "exec"]
                 /\ rlog' = Append(rlog, RunEntry("step_started", step.id))
                 /\ UNCHANGED rwaiters
    /\ UNCHANGED <<rplan, rresolved, rcancelled>>

\* The approval_requested event, then wait_for_approval, its first lines: the
\* waiter is looked up once
R_WaitEnter ==
    /\ rthr.pc = "waitenter"
    /\ rlog' = Append(rlog, RunEntry("approval_requested", rplan[rthr.idx].id))
    /\ IF rplan[rthr.idx].id \in rwaiters
       THEN rthr' = [rthr EXCEPT !.pc = "wait"] /\ UNCHANGED rstored
       ELSE FailRun("no approval pending")
    /\ UNCHANGED <<rplan, rwaiters, rresolved, rcancelled>>

\* A wait that goes on to the step when the token is cancelled.
R_WaitPoll_CancelProceeds ==
    /\ rthr.pc = "wait"
    /\ LET id  == rplan[rthr.idx].id
           res == PollResult(id \in rresolved, TRUE, rcancelled)
       IN  /\ res # "blocked"
           /\ rstored' = SetStep([rstored EXCEPT !.status = "running"], id, "running")
           /\ rthr' = [rthr EXCEPT !.pc = "exec"]
    /\ UNCHANGED <<rplan, rwaiters, rresolved, rcancelled, rlog>>

\* The wait returns (get_run, status running, update_run) or raises the
\* token's cancel cause.
R_WaitPoll ==
    /\ rthr.pc = "wait"
    /\ LET id  == rplan[rthr.idx].id
           res == PollResult(id \in rresolved, TRUE, rcancelled)
       IN  /\ res # "blocked"
           /\ IF res = "return"
              THEN /\ rstored' = SetStep([rstored EXCEPT !.status = "running"], id, "running")
                   /\ rthr' = [rthr EXCEPT !.pc = "exec"]
              ELSE FailRun("canceled")
    /\ UNCHANGED <<rplan, rwaiters, rresolved, rcancelled, rlog>>

\* A step whose failed command is recorded without raising.
R_Exec_NoRaise(ok) ==
    /\ rthr.pc = "exec"
    /\ LET step == rplan[rthr.idx]
           ran == IF step.type = "command"
                  THEN <<RunEntry("executed", step.id)>> ELSE <<>>
           good == ok \/ step.type # "command"
       IN
       /\ rstored' = SetStep(rstored, step.id, IF good THEN "succeeded" ELSE "failed")
       /\ rthr' = [pc |-> "head", idx |-> rthr.idx + 1]
       /\ rlog' = rlog \o ran \o
                    <<RunEntry(IF good THEN "step_completed" ELSE "step_failed", step.id)>>
    /\ UNCHANGED <<rplan, rwaiters, rresolved, rcancelled>>

\* The step's command (or nothing, for a step of another type) and
\* _complete_step; a failed command raises RuntimeError("command failed").
R_Exec(ok) ==
    /\ rthr.pc = "exec"
    /\ LET step == rplan[rthr.idx]
           ran == IF step.type = "command"
                  THEN <<RunEntry("executed", step.id)>> ELSE <<>>
       IN
       IF ok \/ step.type # "command"
       THEN /\ rstored' = SetStep(rstored, step.id, "succeeded")
            /\ rthr' = [pc |-> "head", idx |-> rthr.idx + 1]
            /\ rlog' = rlog \o ran \o <<RunEntry("step_completed", step.id)>>
       ELSE /\ rstored' = [SetStep(rstored, step.id, "failed") EXCEPT
                              !.status = "failed", !.error = "command failed"]
            /\ rthr' = [rthr EXCEPT !.pc = "exit"]
            /\ rlog' = rlog \o ran \o <<RunEntry("step_failed", step.id),
                                         RunEntry("run_failed", "")>>
    /\ UNCHANGED <<rplan, rwaiters, rresolved, rcancelled>>

\* The finally clause; the thread ends.
R_Exit ==
    /\ rthr.pc = "exit"
    /\ rthr' = [rthr EXCEPT !.pc = "done"]
    /\ UNCHANGED <<rplan, rstored, rwaiters, rresolved, rcancelled, rlog>>

\* POST /v1/runs/{id}/approve: Store.approve
R_Approve(k) ==
    /\ HasWaiter(rwaiters, k)
    /\ rresolved' = rresolved \cup {k}
    /\ rwaiters' = DelWaiter(rwaiters, k)
    /\ rlog' = Append(rlog, RunEntry("approve", k))
    /\ UNCHANGED <<rplan, rstored, rthr, rcancelled>>

\* POST /v1/runs/{id}/cancel: Store.cancel_run
R_Cancel ==
    /\ ~rcancelled
    /\ rcancelled' = TRUE
    /\ rlog' = Append(rlog, RunEntry("cancel", ""))
    /\ UNCHANGED <<rplan, rstored, rthr, rwaiters, rresolved>>

RunOnly == UNCHANGED <<engineVars, keyVars, eventVars, approvalVars, waitVars, persistVars, loadVars>>

RunNext ==
    \/ RunOnly /\ R_Begin
    \/ RunOnly /\ \E ok \in BOOLEAN : R_Setup(ok)
    \/ RunOnly /\ R_Head
    \/ RunOnly /\ R_WaitEnter
    \/ RunOnly /\ R_WaitPoll
    \/ RunOnly /\ \E ok \in BOOLEAN : R_Exec(ok)
    \/ RunOnly /\ R_Exit
    \/ RunOnly /\ \E k \in Keys : R_Approve(k)
    \/ RunOnly /\ R_Cancel

SpecRun == RunInit /\ [][RunNext]_vars

(***************************************************************************)
(* Store.update_session (update_run is the same code) called by two        *)
(* threads, the session.json file it writes, and a restart of the daemon:  *)
(* a new Store that loads the files.                                       *)
(***************************************************************************)
MaxRestarts == 1

PersistInit ==
    /\ EngineIdle /\ KeyIdle /\ EventsIdle /\ ApprovalIdle /\ WaitIdle /\ RunIdle /\ LoadIdle
    /\ pmem = NewRecord
    /\ pdisk = NewRecord
    /\ pthr = [t \in PThreads |-> PIdle]
    /\ prestarts = 0

\* The turn statuses the engine stores one after the other
TurnSteps(status) ==
    CASE status = "pending" -> {"running"}
      [] status = "running" -> {"waiting_approval", "succeeded", "failed"}
      [] status = "waiting_approval" -> {"running", "failed"}
      [] OTHER -> {}

\* What a thread changes in its copy between get_session and update_session:
\* the engine the turn's status, the messages handler the list of messages.
Changes(t, rec) ==
    IF t = "engine"
    THEN {[rec EXCEPT !.turn = st] : st \in TurnSteps(rec.turn)}
    ELSE {[rec EXCEPT !.msgs = rec.msgs + 1] : x \in {y \in {1} : rec.msgs < MaxPosts}}

\* get_session: a deep copy of the stored record
P_Get(t) ==
    /\ pthr[t].pc = "idle"
    /\ Changes(t, pmem) # {}
    /\ pthr' = [pthr EXCEPT ![t] = [pc |-> "got", rec |-> pmem]]
    /\ UNCHANGED <<pmem, pdisk, prestarts>>

\* update_session, under the lock: self._sessions[session.id] = session
P_Store(t) ==
    /\ pthr[t].pc = "got"
    /\ \E rec \in Changes(t, pthr[t].rec) :
          /\ pmem' = rec
          /\ pthr' = [pthr EXCEPT ![t] = [pc |-> "stored", rec |-> rec]]
    /\ UNCHANGED <<pdisk, prestarts>>

\* _save_session, after the lock was released: the file is written
P_Save(t) ==
    /\ pthr[t].pc = "stored"
    /\ pdisk' = pthr[t].rec
    /\ pthr' = [pthr EXCEPT ![t] = [pc |-> "idle", rec |-> pthr[t].rec]]
    /\ UNCHANGED <<pmem, prestarts>>

\* The daemon stops at any point and starts again: main makes a Store and
\* Store.init loads each session.json as it is. No engine thread is started
\* for a loaded session; the event loop serves requests again.
P_Restart ==
    /\ prestarts < MaxRestarts
    /\ prestarts' = prestarts + 1
    /\ pmem' = pdisk
    /\ pthr' = [t \in PThreads |->
                  IF t = "engine" THEN [pc |-> "gone", rec |-> pdisk]
                  ELSE [pc |-> "idle", rec |-> pdisk]]
    /\ UNCHANGED pdisk

PersistOnly == UNCHANGED <<engineVars, keyVars, eventVars, approvalVars, waitVars, runVars,
                           loadVars>>

PersistNext ==
    \/ PersistOnly /\ \E t \in PThreads : P_Get(t)
    \/ PersistOnly /\ \E t \in PThreads : P_Store(t)
    \/ PersistOnly /\ \E t \in PThreads : P_Save(t)
    \/ PersistOnly /\ P_Restart

SpecPersist == PersistInit /\ [][PersistNext]_vars

(***************************************************************************)
(* What a session record is after a restart: update_session writes the     *)
(* whole dataclass to session.json, and the Store made at the next startup *)
(* builds its record from the file with _session_from_dict.  One thread    *)
(* updates at a time here; updated_at, which _save_session sets on the     *)
(* object itself before it writes, and the fields no operation changes     *)
(* after create_session are left out.                                      *)
(***************************************************************************)
MaxItems == 2       \* messages, and turns, of the session
MaxCost == 2        \* units of cost the model calls report

LoadInit ==
    /\ EngineIdle /\ KeyIdle /\ EventsIdle /\ ApprovalIdle /\ WaitIdle /\ RunIdle /\ PersistIdle
    /\ \E mode \in {"chat", "spec"} :
          /\ lmem = NewSession(mode)
          /\ lfile = [by |-> "create", data |-> SessionToDict(NewSession(mode))]
    /\ lnew = {}

\* x or []
OrEmpty(list) == IF list.none THEN <<>> ELSE list.items

\* _message_from_dict
MessageFromDict(m) == [id |-> m.id, role |-> m.role]

\* _turn_from_dict
TurnFromDict(t) == [id |-> t.id, status |-> t.status]

\* [_message_from_dict(m) for m in messages] if messages else None, with
\* messages = data.get("messages") or []
MessagesFromDict(value) ==
    LET items == OrEmpty(value)
    IN  IF items = <<>> THEN None
        ELSE [none |-> FALSE,
              items |-> [n \in 1..Len(items) |-> MessageFromDict(items[n])]]

\* [_turn_from_dict(t) for t in turns] if turns else None
TurnsFromDict(value) ==
    LET items == OrEmpty(value)
    IN  IF items = <<>> THEN None
        ELSE [none |-> FALSE,
              items |-> [n \in 1..Len(items) |-> TurnFromDict(items[n])]]

\* _session_from_dict: Session(...) is given no cost, which is then None
SessionFromDict(data) ==
    [status |-> data.status, mode |-> data.mode,
     messages |-> MessagesFromDict(data.messages),
     turns |-> TurnsFromDict(data.turns),
     cost |-> None, error |-> data.error]

\* update_session: the record is stored and session.json written
L_UpdateSession(s) ==
    /\ lmem' = s
    /\ lfile' = [by |-> "update", data |-> SessionToDict(s)]
    /\ UNCHANGED lnew

\* append_message
L_AppendMessage(role) ==
    LET items == OrEmpty(lmem.messages)
    IN  /\ lnew = {}
        /\ Len(items) < MaxItems
        /\ L_UpdateSession([lmem EXCEPT !.messages =
              [none |-> FALSE,
               items |-> Append(items, [id |-> Len(items) + 1, role |-> role])]])

\* add_turn
L_AddTurn ==
    LET items == OrEmpty(lmem.turns)
    IN  /\ lnew = {}
        /\ Len(items) < MaxItems
        /\ L_UpdateSession([lmem EXCEPT !.turns =
              [none |-> FALSE,
               items |-> Append(items, [id |-> Len(items) + 1, status |-> "pending"])]])

\* _record_session_cost: the first cost makes the SessionCost, each is added
L_RecordCost ==
    LET total == IF lmem.cost = None THEN 0 ELSE lmem.cost.total
    IN  /\ lnew = {}
        /\ total < MaxCost
        /\ L_UpdateSession([lmem EXCEPT !.cost = [none |-> FALSE, total |-> total + 1]])

\* cancel_session, on the record
L_Cancel ==
    /\ lnew = {}
    /\ lmem.status = "active"
    /\ L_UpdateSession([lmem EXCEPT !.status = "canceled", !.error = "canceled"])

\* The daemon starts again: Store.init, _load_existing_sessions
L_Load ==
    /\ lnew = {}
    /\ lnew' = {SessionFromDict(lfile.data)}
    /\ UNCHANGED <<lmem, lfile>>

LoadOnly == UNCHANGED <<engineVars, keyVars, eventVars, approvalVars, waitVars, runVars,
                        persistVars>>

LoadNext ==
    \/ LoadOnly /\ \E role \in {"user", "assistant"} : L_AppendMessage(role)
    \/ LoadOnly /\ L_AddTurn
    \/ LoadOnly /\ L_RecordCost
    \/ LoadOnly /\ L_Cancel
    \/ LoadOnly /\ L_Load

SpecLoad == LoadInit /\ [][LoadNext]_vars

(***************************************************************************)
(* Properties.                                                             *)
(***************************************************************************)
IsPrefix(s, t) == Len(s) <= Len(t) /\ SubSeq(t, 1, Len(s)) = s

Last(s) == s[Len(s)]

\* The turn record with this id in a session record.
TurnRec(s, tid) == s.turns[CHOOSE i \in 1..Len(s.turns) : s.turns[i].id = tid]

\* C1: at most one turn execution of the session is in flight at any time,
\* and while one is in flight the session is marked as running, so that a
\* start_turn made before it finishes raises and starts no second executor.
C1_AtMostOneInFlight ==
    /\ Cardinality(Active) <= 1
    /\ Active # {} => SID \in running

\* A turn is in flight while another turn of the session is pending and a
\* further start is asked for: the retry of the pending turn is refused.
C1_StartWhileRunning ==
    \E e \in Active :
        /\ starts > 0
        /\ \E i \in 1..Len(stored.turns) :
              stored.turns[i].id # ex[e].turn /\ stored.turns[i].status = "pending"

\* The rule of the approval policy, as the specification words it.
NeedsApproval(name) ==
    LET d == ToolDefinition(name) IN
    /\ ~d.allow_without_approval
    /\ \/ d.requires_approval
       \/ d.kind \in cfg.policy.require_for_kinds
       \/ d.name \in cfg.policy.require_for_tools

\* C2: a call that requires approval under the policy is never handed to
\* its tool unless a waiter registered for its tool_call_id was resolved with
\* action approve; for the model's calls and for the synthetic verify call.
C2_NoInvokeWithoutApproval ==
    \A i \in 1..Len(invoked) :
        NeedsApproval(invoked[i].name) =>
            /\ invoked[i].id \in DOMAIN decided
            /\ decided[invoked[i].id].action = "approve"

\* Both a call of the model and the verify call were invoked after approval.
C2_ApprovedCallsInvoked ==
    \E i, j \in 1..Len(invoked) :
        /\ invoked[i].name = "shell"
        /\ invoked[j].name = "verify"
        /\ NeedsApproval("verify")

\* The engine thread e leaves its approval wait with a decision of this action.
LeavesWaitWith(e, pcs, action) ==
    /\ ex[e].pc \in pcs
    /\ ex'[e].pc # ex[e].pc
    /\ ex[e].cur.id \in DOMAIN decided
    /\ decided[ex[e].cur.id].action = action

\* C3: when the pending approval of a tool call is resolved with action
\* approve, the engine emits approval_granted, sets the session back to
\* active and the turn back to running, then emits tool_call_started and
\* invokes the tool.
C3_ApproveResumesCall ==
    [][\A e \in Executors :
          LeavesWaitWith(e, {"wait"}, "approve") =>
              /\ events' = events \o
                    <<Event("approval_granted", ex[e].cur.id, "engine", ex[e].turn, ""),
                      Event("tool_call_started", ex[e].cur.id, "engine", ex[e].turn, "")>>
              /\ stored'.status = "active"
              /\ TurnRec(stored', ex[e].turn).status = "running"
              /\ invoked' = Append(invoked, ex[e].cur)]_vars

\* C4: when a pending approval of a turn is resolved with action deny, the
\* engine emits approval_denied, does not invoke the tool, and the turn ends
\* failed with error "approval denied" and the session's status is failed.
C4_DenyFailsTurn ==
    [][\A e \in Executors :
          LeavesWaitWith(e, {"wait", "vwait"}, "deny") =>
              /\ \E n \in Len(events) + 1..Len(events') :
                    events'[n] = Event("approval_denied", ex[e].cur.id, "engine",
                                       ex[e].turn, "")
              /\ invoked' = invoked
              /\ ex'[e].pc = "exit"
              /\ stored'.status = "failed"
              /\ TurnRec(stored', ex[e].turn).status = "failed"
              /\ TurnRec(stored', ex[e].turn).error = "approval denied"]_vars

\* The thread e is in a model call that returns, in an approval wait or in
\* a tool invocation, and its cancel token has fired.
CanceledInFlight(e) ==
    /\ ex[e].tok \in cancelled
    /\ \/ ex[e].pc \in {"wait", "vwait", "invoking", "vinvoking"}
       \/ ex[e].pc = "model" /\ answers' # answers

\* C5: if the cancel token fires while the turn is in flight, the turn ends
\* with session status canceled and a session_canceled event of the engine,
\* never with session status failed nor with the turn succeeded.
C5_CancelEndsCanceled ==
    [][\A e \in Executors :
          (CanceledInFlight(e) /\ ex'[e].pc = "exit") =>
              /\ stored'.status = "canceled"
              /\ Last(events') = Event("session_canceled", 0, "engine", ex[e].turn, "canceled")
              /\ TurnRec(stored', ex[e].turn).status # "succeeded"]_vars

\* The message with this id was added by the engine during this turn.
AddedDuring(mid, tid) ==
    \E n \in 1..Len(events) :
        /\ events[n].type = "message_added" /\ events[n].by = "engine"
        /\ events[n].id = mid /\ events[n].turn = tid

\* C6: for every turn that ended succeeded, every tool_use part of an
\* assistant message appended during that turn has a later role=tool message
\* with the same tool_call_id in the transcript, or a tool_call_skipped event.
C6_ToolUseResolved ==
    \A t \in 1..Len(stored.turns) :
        stored.turns[t].status = "succeeded" =>
            \A j \in 1..Len(stored.messages) :
                LET m == stored.messages[j] IN
                (m.role = "assistant" /\ AddedDuring(m.id, stored.turns[t].id)) =>
                    \A u \in 1..Len(m.tool_use) :
                        \/ \E k \in j + 1..Len(stored.messages) :
                              /\ stored.messages[k].role = "tool"
                              /\ stored.messages[k].tool_call_id = m.tool_use[u]
                        \/ \E n \in 1..Len(events) :
                              /\ events[n].type = "tool_call_skipped"
                              /\ events[n].id = m.tool_use[u]

\* C7: the stored transcript is append-only under every interleaving of the
\* engine thread and the API: a message once stored stays at its position,
\* also one posted through the messages endpoint while a turn is in flight.
C7_TranscriptAppendOnly ==
    [][IsPrefix(stored.messages, stored'.messages)]_vars

\* Position of an event in the log.
LogPos(ev) == CHOOSE i \in 1..Len(elog) : elog[i] = ev

\* C8: the order in which events are delivered to a live subscriber equals
\* their order in the events log, also when the engine thread and the API
\* handlers append to the same id concurrently.
C8_DeliveryInLogOrder ==
    \A s \in Subscribers :
        \A i, j \in 1..Len(edelivered[s]) :
            i < j => LogPos(edelivered[s][i]) < LogPos(edelivered[s][j])

\* Two JSON texts with the same meaning: both parse, to the same scalar or
\* to objects with the same members whatever their order.
SameJson(a, b) ==
    LET x == ParseToolInput(a)
        y == ParseToolInput(b)
    IN  /\ x.ok /\ y.ok /\ x.kind = y.kind
        /\ IF x.kind = "object"
           THEN {x.val[i] : i \in 1..Len(x.val)} = {y.val[i] : i \in 1..Len(y.val)}
           ELSE x.val = y.val

\* C9: two calls of one turn with the same name whose JSON inputs are
\* semantically equal but differ in key order or whitespace get the same
\* call key, so the second one is skipped.
C9_EqualInputsSkipped ==
    (/\ kout.done
     /\ kcalls[1].name = kcalls[2].name
     /\ SameJson(kcalls[1].input, kcalls[2].input))
        => /\ ToolCallKey(kcalls[1]) = ToolCallKey(kcalls[2])
           /\ kout.run = <<kcalls[1]>>
           /\ kout.skipped = <<kcalls[2]>>

\* The waiters of a variant of the store.
Waiters(v) == IF v = "run" THEN runApprovals ELSE approvals

\* C10: after require_approval(id, key) the first approve(id, key) succeeds
\* and removes the waiter; every further approve without a new registration
\* raises, and so does approve for a key never registered; for the run and
\* for the session variant.
C10_ApproveOncePerRegistration ==
    /\ \A v \in Variants, k \in Keys :
          /\ aok[<<v, k>>] <= areq[<<v, k>>]
          /\ k \in Waiters(v) <=> areq[<<v, k>>] = aok[<<v, k>>] + 1
    /\ alast.op = "approve" =>
          /\ alast.key \notin Waiters(alast.variant)
          /\ areq[<<alast.variant, alast.key>>] = aok[<<alast.variant, alast.key>>]

\* A second approve after a successful one raised, in each variant, and so
\* did an approve of a key never registered.
C10_SecondApproveRaised ==
    /\ alast.op = "approve" /\ alast.result = "error"
    /\ aok[<<alast.variant, alast.key>>] = 1
    /\ \E v \in Variants, k \in Keys : aok[<<v, k>>] = 1 /\ v # alast.variant

\* C11: a require_approval (require_session_approval) for a key that already
\* has an unresolved waiter raises, and the step changes nothing in the store:
\* the waiter it found stays registered, no registration is added, and the
\* other variant's waiters and the resolved decisions are as before.
C11_DuplicateRequireRaises ==
    [][(alast'.op = "require" /\ alast'.key \in Waiters(alast'.variant)) =>
          /\ alast'.result = "error"
          /\ runApprovals' = runApprovals
          /\ approvals' = approvals
          /\ decided' = decided
          /\ areq' = areq
          /\ aok' = aok]_vars

\* A duplicate require_approval was refused while the same key is also
\* waiting in the other variant.
C11_DuplicateRefused ==
    /\ alast.op = "require" /\ alast.result = "error"
    /\ alast.key \in runApprovals \cap approvals
    /\ areq[<<alast.variant, alast.key>>] = aok[<<alast.variant, alast.key>>] + 1

\* The token was cancelled before the waiter w was resolved (or w never was).
CancelledBefore(w) ==
    \E a \in 1..Len(whist) :
        /\ whist[a].op = "cancel"
        /\ \A b \in 1..a : whist[b] # [op |-> "resolve", w |-> w]

C13_WaitingHasOneWaiter ==
    stored.status = "waiting_approval" =>
        \E e \in Active :
            /\ ex[e].pc \in {"waitenter", "wait"}
            /\ approvals = {ex[e].cur.id}

\* The model calls of the turn execution that started last: the
\* model_output_completed events after the last turn_started event.
ModelCallsSinceStart ==
    LET starts_ == {n \in 1..Len(events) : events[n].type = "turn_started"}
        last == IF starts_ = {} THEN 0
                ELSE CHOOSE n \in starts_ : \A m \in starts_ : m <= n
    IN  Cardinality({n \in last + 1..Len(events) :
                        events[n].type = "model_output_completed"})

\* C14: an execution of a turn calls the model at most 8 times, and when
\* its 8th iteration has ended without completing the turn, the thread's next
\* step fails the turn (and the session) with the error "max turn iterations
\* reached" and calls the model no more.
C14_AtMostEightModelCalls ==
    /\ [](ModelCallsSinceStart <= 8)
    /\ [][\A e \in Executors :
            (ex[e].pc = "loop" /\ ex[e].iter = 8 /\ ex'[e] # ex[e]) =>
                /\ ModelCallsSinceStart = 8
                /\ ex'[e].pc = "exit"
                /\ stored'.status = "failed"
                /\ stored'.error = "max turn iterations reached"
                /\ TurnRec(stored', ex[e].turn).status = "failed"
                /\ TurnRec(stored', ex[e].turn).error = "max turn iterations reached"
                /\ Last(events') = Event("turn_failed", 0, "engine", ex[e].turn,
                                         "max turn iterations reached")]_vars

\* A turn made its 8 model calls, each followed by a failed verification,
\* and ended with the iteration error.
C14_EightIterationsMade ==
    \E e \in Executors :
        /\ ex[e].pc = "exit" /\ ex[e].iter = 8
        /\ ModelCallsSinceStart = 8
        /\ Last(events).info = "max turn iterations reached"

C16_ReadReturnsLogPrefix ==
    /\ \A i, j \in 1..Len(elog) : i < j => elog[i] < elog[j]
    /\ {elog[i] : i \in 1..Len(elog)} = 1..enext - 1
    /\ eread.done =>
          /\ IsPrefix(eread.out, elog)
          /\ Len(eread.out) = IF eread.n > 0 THEN Min(eread.n, eread.total)
                               ELSE eread.total
          /\ eread.total = Len(elog) => eread.out = ReadLoop(elog, <<>>, eread.n)

\* A read with a positive max_items below the file's length returned just
\* that many events, while another writer was inside append_event.
C16_ReadFirstTwoOfThree ==
    /\ eread.done /\ eread.n = 2 /\ eread.total = 3
    /\ eread.out = <<1, 2>>
    /\ ewriter["engine"].pc # "idle"

\* C17: a handler is called at most once per event, only for events that
\* were appended to the file after its subscribe returned, and only while it
\* is subscribed, never after its unsubscribe closure has returned.
C17_DeliveredOnlyWhileSubscribed ==
    /\ [](\A s \in Subscribers :
            \A i, j \in 1..Len(edelivered[s]) :
                i < j => edelivered[s][i] # edelivered[s][j])
    /\ [][\A s \in Subscribers :
            edelivered'[s] # edelivered[s] =>
                /\ s \in esubs
                /\ LogPos(Last(edelivered'[s])) > esince[s]]_vars


RunTerminal == {"succeeded", "failed", "canceled"}

\* The status changes of a run that the lifecycle allows
RunLifecycle ==
    {<<"queued", "running">>,
     <<"running", "waiting_approval">>,
     <<"waiting_approval", "running">>}
    \cup ({"running", "waiting_approval"} \X RunTerminal)

\* C18: a run's status goes queued -> running -> (waiting_approval <-> running)*
\* -> one of succeeded, failed, canceled, and a terminal status never changes:
\* every change of the stored status is one the lifecycle allows, and a run
\* whose thread ended has a terminal status.
C18_RunLifecycle ==
    /\ [](rthr.pc = "done" => rstored.status \in RunTerminal)
    /\ [][rstored'.status # rstored.status
            => <<rstored.status, rstored'.status>> \in RunLifecycle]_vars

\* A run of two steps ended as succeeded after an approval, its token cancelled
\* during the last step.
C18_SucceededAfterApprovalAndCancel ==
    /\ rthr.pc = "done"
    /\ rstored.status = "succeeded"
    /\ Len(rplan) = 2
    /\ rresolved # {}
    /\ rcancelled

\* C19: after a daemon restart no turn is left running or waiting_approval;
\* every turn in flight when the daemon stopped is marked failed.
C19_NoTurnInFlightAfterRestart ==
    prestarts > 0 => pmem.turn \notin {"running", "waiting_approval"}

\* C20: whenever no update call is in progress, the persisted session.json
\* equals the latest in-memory record, also after updates of different
\* threads have interleaved.
C20_FileEqualsMemoryWhenNoUpdate ==
    (\A t \in PThreads : pthr[t].pc # "stored") => pdisk = pmem

\* The places of the run's log that hold an entry of this type for this step
RunEntries(type, id) ==
    {i \in 1..Len(rlog) : rlog[i] = RunEntry(type, id)}

StartedSteps == SelectSeq(rlog, LAMBDA e : e.type = "step_started")

C22_NoVerifyAfterCancel ==
    [][\A e \in Executors :
          (ex[e].pc # "vinvoking" /\ ex'[e].pc = "vinvoking"
              /\ Len(invoked') = Len(invoked) + 1
              /\ Last(invoked').name = "verify")
          => ex[e].tok \notin cancelled]_vars

\* The place of the last turn_started event: where the events of the turn
\* execution that started last begin (0 when no turn has started).
LastStart ==
    LET at == {n \in 1..Len(events) : events[n].type = "turn_started"}
    IN  IF at = {} THEN 0 ELSE CHOOSE n \in at : \A m \in at : m <= n

\* The tool calls the model asked for that were invoked since then, by the
\* place of their tool_call_started event (the hooks verify and
\* validate_spec are no calls of the model).
ModelCallsInvoked ==
    {n \in LastStart + 1..Len(events) :
        /\ events[n].type = "tool_call_started"
        /\ \E i \in 1..Len(invoked) :
              invoked[i].id = events[n].id
              /\ invoked[i].name \notin {"verify", "validate_spec"}}

InvokedCall(id) == invoked[CHOOSE i \in 1..Len(invoked) : invoked[i].id = id]

\* C23: within one execution of a turn, across its iterations, a tool call
\* key is executed at most once; a skipped call has tool_call_skipped followed
\* by tool_call_completed (skipped) as the engine's next event, is not
\* invoked, and has neither a tool_use part nor a role=tool message; the set
\* of seen keys is empty when a turn starts.
C23_KeyExecutedOncePerTurn ==
    /\ \A i, j \in ModelCallsInvoked :
          i < j => ToolCallKey(InvokedCall(events[i].id))
                      # ToolCallKey(InvokedCall(events[j].id))
    /\ \A n \in 1..Len(events) :
          events[n].type = "tool_call_skipped" =>
              /\ \E m \in n + 1..Len(events) :
                    /\ events[m] = Event("tool_call_completed", events[n].id, "engine",
                                         events[n].turn, "skipped")
                    /\ \A k \in n + 1..m - 1 : events[k].by # "engine"
              /\ \A i \in 1..Len(invoked) : invoked[i].id # events[n].id
              /\ \A i \in 1..Len(stored.messages) :
                    /\ stored.messages[i].tool_call_id # events[n].id
                    /\ \A u \in 1..Len(stored.messages[i].tool_use) :
                          stored.messages[i].tool_use[u] # events[n].id
    /\ \A e \in Executors : (ex[e].pc = "loop" /\ ex[e].iter = 0) => ex[e].seen = {}

\* A call was skipped in the second iteration of a turn: its key was
\* executed in the first.
C23_SkippedInLaterIteration ==
    \E n \in LastStart + 1..Len(events) :
        /\ events[n].type = "tool_call_skipped"
        /\ ModelCallsInvoked # {}
        /\ \E m \in LastStart + 1..n - 1 : \E k \in m + 1..n - 1 :
              /\ events[m].type = "model_output_completed"
              /\ events[k].type = "model_output_completed"

\* The events a step appends
NewEvents == {n \in Len(events) + 1..Len(events') : TRUE}

\* Thread e takes a step in which the model's response arrives.
ModelResponded(e) ==
    /\ ex[e].pc = "model" /\ ex'[e] # ex[e]
    /\ \E n \in NewEvents : events'[n].type = "model_output_completed"

\* ... a response without tool calls: nothing was skipped, nothing accepted,
\* and no tool was unknown.
NoToolCalls(e) ==
    /\ ModelResponded(e)
    /\ \A n \in NewEvents : events'[n].type \notin {"tool_call_skipped", "turn_failed"}
    /\ ex'[e].newCalls = 0

\* The step completes the turn of thread e.
TurnCompletedBy(e) ==
    /\ ex'[e].pc = "exit"
    /\ Last(events') = Event("turn_completed", 0, "engine", ex[e].turn, "")
    /\ TurnRec(stored', ex[e].turn).status = "succeeded"

\* The step does not complete the turn.
NotCompleted == \A n \in NewEvents : events'[n].type # "turn_completed"

\* The step starts the verify hook of thread e.
VerifyStartedBy(e) ==
    /\ ex'[e].pc \in {"vwaitenter", "vinvoking"}
    /\ ex'[e].cur.name = "verify"

AllDuplicates(e) ==
    /\ ModelResponded(e)
    /\ \E n \in NewEvents : events'[n].type = "tool_call_skipped"
    /\ \A n \in NewEvents : events'[n].type # "turn_failed"
    /\ ex'[e].newCalls = 0

\* C25: when every tool call of a model response is a duplicate, the engine
\* goes on to the next model iteration without the quiescence path: no verify
\* hook and no turn completion happen in that iteration.
C25_AllDuplicatesNextIteration ==
    [][\A e \in Executors :
          AllDuplicates(e) =>
              /\ ex'[e].pc = "loop"
              /\ ex'[e].iter = ex[e].iter + 1
              /\ NotCompleted
              /\ ~VerifyStartedBy(e)]_vars

\* C25 (amended): when every tool call of a model response is a duplicate,
\* the engine runs the quiescence path in that iteration: the verify hook if
\* auto_verify is on and the workspace is dirty, the completion of the turn
\* otherwise.
C25_AllDuplicatesQuiesce ==
    [][\A e \in Executors :
          AllDuplicates(e) =>
              IF cfg.auto_verify /\ ex[e].dirty
              THEN VerifyStartedBy(e) /\ NotCompleted
              ELSE TurnCompletedBy(e)]_vars

\* A turn was completed right after the skipped call of a response.
C25_CompletedAfterSkippedCall ==
    \E n \in LastStart + 1..Len(events) - 1 :
        /\ events[n].type = "tool_call_completed"
        /\ events[n].info = "skipped"
        /\ events[n + 1].type = "turn_completed"

\* Thread e takes the step in which the tool it invoked returns, with this
\* outcome in its tool_call_completed event.
ToolReturnedBy(e, outs) ==
    /\ ex[e].pc = "invoking" /\ ex'[e] # ex[e]
    /\ events'[Len(events) + 1].type = "tool_call_completed"
    /\ events'[Len(events) + 1].info \in outs

\* The step starts no further call of the response (the validate_spec hook
\* is none) and goes to the next iteration.
NextIterationBy(e) ==
    /\ ex'[e].pc = "loop"
    /\ ex'[e].iter = ex[e].iter + 1
    /\ \A i \in Len(invoked) + 1..Len(invoked') : invoked'[i].name = "validate_spec"
    /\ \A n \in NewEvents : events'[n].type # "approval_requested"

\* C26: when an executed tool call returns ok=false, no later accepted call of
\* the same model response is executed, the turn is not failed by it, and the
\* loop goes on to the next iteration, where the model is called again.
C26_FailedCallEndsResponse ==
    [][\A e \in Executors :
          ToolReturnedBy(e, {"fail"}) =>
              /\ NextIterationBy(e)
              /\ \A n \in NewEvents : events'[n].type # "turn_failed"]_vars

\* The step's validate_spec hook ended with this outcome.
SpecValidatedWith(out) ==
    \E n \in NewEvents : events'[n].type = "spec_validated" /\ events'[n].info = out

\* C28: in spec mode every executed write_spec call is at once followed by
\* an automatic validate_spec invocation whose role=tool message is appended;
\* if that validation fails, no remaining call of the same model response is
\* executed before the next model call, and the turn is not completed in that
\* iteration.
C28_ValidateAfterWriteSpec ==
    [][\A e \in Executors :
          (ToolReturnedBy(e, ToolOutcomes)
              /\ ex[e].sess.mode = "spec" /\ ex[e].cur.name = "write_spec") =>
              /\ Len(invoked') > Len(invoked)
              /\ invoked'[Len(invoked) + 1].name = "validate_spec"
              /\ \E i \in 1..Len(stored'.messages) :
                    /\ stored'.messages[i].role = "tool"
                    /\ stored'.messages[i].tool_call_id = invoked'[Len(invoked) + 1].id
              /\ SpecValidatedWith("fail") => NextIterationBy(e) /\ NotCompleted]_vars

\* C27: when a tool's invoke raises an exception (as opposed to returning a
\* result with ok=false), the turn ends failed: no execution of a turn in
\* which a tool raised goes on to another model call or completes the turn.
C27_RaiseFailsTurn ==
    \A n \in LastStart + 1..Len(events) :
        (events[n].type = "tool_call_completed" /\ events[n].info = "raise") =>
            \A m \in n + 1..Len(events) :
                events[m].type \notin {"model_output_completed", "turn_completed"}

\* The calls of the model that ended (with whatever result) in the turn
\* execution that started last and that dirty the workspace: tools of kind
\* write or exec other than write_spec in spec mode.
DirtyingCallsDone ==
    {n \in ModelCallsInvoked :
        /\ \E m \in n + 1..Len(events) :
              events[m].type = "tool_call_completed" /\ events[m].id = events[n].id
        /\ ToolDefinition(InvokedCall(events[n].id).name).kind \in {"write", "exec"}
        /\ ~(cfg.mode = "spec" /\ InvokedCall(events[n].id).name = "write_spec")}

\* C29: workspace_dirty is false at the start of each turn, is true exactly
\* when a tool of kind write or exec other than spec-mode write_spec has been
\* executed in the turn (whatever its ok flag), never returns to false within
\* the turn, and the verify hook is invoked only where it is true.
C29_DirtyTracksWrites ==
    /\ [](\A e \in Active :
            /\ (ex[e].pc = "begin" \/ (ex[e].pc = "loop" /\ ex[e].iter = 0))
                  => ~ex[e].dirty
            /\ (ex[e].pc \notin {"begin", "exit"})
                  => (ex[e].dirty <=> DirtyingCallsDone # {})
            /\ ex[e].pc \in {"vwaitenter", "vwait", "vinvoking"} => ex[e].dirty)
    /\ [][\A e \in Executors :
            (ex[e].dirty /\ ex'[e].pc # "idle") => ex'[e].dirty]_vars

\* The workspace is dirty after a shell call that returned ok=false.
C29_DirtyAfterFailedShell ==
    \E e \in Active :
        /\ ex[e].dirty
        /\ \E n \in LastStart + 1..Len(events) :
              /\ events[n].type = "tool_call_completed"
              /\ events[n].info = "fail"
              /\ \E i \in 1..Len(invoked) :
                    invoked[i].id = events[n].id /\ invoked[i].name = "shell"

\* The token fired at place i of the log while a step was executing, and
\* that step completed at place k.
CancelledDuringStep(i, k) ==
    /\ rlog[i].type = "cancel"
    /\ i < k
    /\ rlog[k].type = "step_completed"
    /\ \E j \in 1..i - 1 : rlog[j] = RunEntry("step_started", rlog[k].step)

\* C31: if a run's cancel token fires while a step is executing and that step
\* then completes, the run ends canceled with a run_canceled event and no
\* later step starts, after every step including the last of the plan.
C31_CancelDuringStepEndsCanceled ==
    \A i, k \in 1..Len(rlog) :
        CancelledDuringStep(i, k) =>
            /\ \A m \in k + 1..Len(rlog) :
                  rlog[m].type \notin {"step_started", "run_succeeded"}
            /\ rthr.pc = "done" =>
                  /\ rstored.status = "canceled"
                  /\ RunEntries("run_canceled", "") # {}

\* C32: an approve decision delivered after the engine registered the waiter
\* and emitted approval_requested is never lost: when approve ran before the
\* engine entered wait_for_session_approval, the wait is entered all the same
\* and does not raise.
C32_EarlyApproveNotLost ==
    [][\A e \in Executors :
          (ex[e].pc \in {"waitenter", "vwaitenter"} /\ ex'[e] # ex[e]
              /\ ex[e].cur.id \in DOMAIN decided
              /\ decided[ex[e].cur.id] = [shape |-> "object", action |-> "approve"])
          => /\ ex'[e].pc \in {"wait", "vwait"}
             /\ \A n \in NewEvents : events'[n].type # "turn_failed"]_vars

\* C33: whenever no turn of the session is in flight, no approval waiter is
\* registered for it; a wait that ended because the token fired leaves no
\* waiter that a later approve could resolve.
C33_NoWaiterWithoutTurn ==
    Active = {} => approvals = {}

\* C34: whenever the engine is blocked on an approval waiter of the session,
\* the waiter of the synthetic verify call included, the stored session
\* status and the status of the turn in flight are waiting_approval.
C34_BlockedMeansWaitingApproval ==
    \A e \in Active :
        ex[e].pc \in {"wait", "vwait"} =>
            /\ stored.status = "waiting_approval"
            /\ TurnRec(stored, ex[e].turn).status = "waiting_approval"

\* The tool_call_completed events, since the last turn_started, of executed
\* calls with this property of their name
CompletedCalls(P(_), outs) ==
    {m \in LastStart + 1..Len(events) :
        /\ events[m].type = "tool_call_completed"
        /\ events[m].info \in outs
        /\ \E i \in 1..Len(invoked) : invoked[i].id = events[m].id /\ P(invoked[i].name)}

\* A tool that dirties the workspace: kind write or exec, not the verify hook
\* and not write_spec in spec mode.
Dirtying(name) ==
    /\ ToolDefinition(name).kind \in {"write", "exec"}
    /\ name # "verify"
    /\ ~(cfg.mode = "spec" /\ name = "write_spec")

IsVerify(name) == name = "verify"

\* C35: with auto_verify on, an execution of a turn in which a write or exec
\* tool other than spec-mode write_spec was executed is marked succeeded
\* (turn_completed) only if the verify hook ran after the last such execution
\* and its result was ok.
C35_SucceededOnlyAfterVerify ==
    cfg.auto_verify =>
        \A c \in LastStart + 1..Len(events) :
            LET dirtied == {d \in CompletedCalls(Dirtying, ToolOutcomes) : d < c} IN
            (events[c].type = "turn_completed" /\ dirtied # {}) =>
                \E v \in CompletedCalls(IsVerify, {"ok"}) :
                    v < c /\ \A d \in dirtied : d < v

\* A turn was completed after a shell call, a failed verification, and a
\* second verification that was ok.
C35_CompletedAfterSecondVerify ==
    /\ \E c \in LastStart + 1..Len(events) : events[c].type = "turn_completed"
    /\ CompletedCalls(Dirtying, ToolOutcomes) # {}
    /\ CompletedCalls(IsVerify, {"fail"}) # {}
    /\ CompletedCalls(IsVerify, {"ok"}) # {}

TerminalEvents == {"turn_completed", "turn_failed", "session_canceled"}

\* The engine's events of the turn execution that started last
EngineEventsSinceStart ==
    {n \in LastStart + 1..Len(events) : events[n].by = "engine"}

\* A thread is in the middle of an execution that has emitted turn_started.
MidExecution == \E e \in Executors : ex[e].pc \notin {"idle", "begin", "exit"}

\* C36: every turn execution that emitted turn_started emits exactly one
\* terminal engine event (turn_completed, turn_failed or session_canceled)
\* and no engine event after it: while the execution is under way it has
\* emitted none, and once it has left the loop it has emitted exactly one, as
\* its last event.
C36_OneTerminalEvent ==
    LastStart > 0 =>
        LET terminal == {n \in EngineEventsSinceStart : events[n].type \in TerminalEvents}
        IN  IF MidExecution
            THEN terminal = {}
            ELSE /\ Cardinality(terminal) = 1
                 /\ \A t \in terminal : \A n \in EngineEventsSinceStart : n <= t

\* An execution ended with session_canceled as its terminal event.
C36_EndedCanceled ==
    /\ ~MidExecution
    /\ \E n \in EngineEventsSinceStart : events[n].type = "session_canceled"

\* C37: a turn whose status has reached succeeded or failed never changes
\* status again, under any sequence of API operations, retry included.
C37_TerminalTurnStable ==
    [][\A i \in 1..Len(stored.turns) :
          stored.turns[i].status \in {"succeeded", "failed"} =>
              /\ i <= Len(stored'.turns)
              /\ stored'.turns[i].id = stored.turns[i].id
              /\ stored'.turns[i].status = stored.turns[i].status]_vars

\* C38: cancel_session on a session with no turn in flight leaves the stored
\* session's status and error as they were.
C38_IdleCancelIsNoOp ==
    [][(ncancels' = ncancels + 1 /\ Active = {} /\ running = {}) =>
          /\ stored'.status = stored.status
          /\ stored'.error = stored.error]_vars

\* C39: a session persisted by update_session and loaded by the Store of the
\* next startup equals the saved record in every field, its status included.
C39_LoadedEqualsSaved ==
    lfile.by = "update" => \A s \in lnew : s = lmem

\* the thread is inside wait_for_session_approval, its waiter unresolved and
\* its token not fired
BlockedWait(e) ==
    /\ ex[e].pc \in {"wait", "vwait"}
    /\ WaitResult(ex[e].cur.id, ex[e].tok) = "blocked"

\* what _complete_turn, _fail_turn and _cancel_turn leave in the record
TerminalOutcome(tid) ==
    /\ stored.status \in {"active", "failed", "canceled"}
    /\ \A i \in 1..Len(stored.turns) :
          stored.turns[i].id = tid => stored.turns[i].status \in {"succeeded", "failed"}

\* C40: provided no approval wait stays unresolved with its token unfired for
\* ever (model and tool calls return by the scheduling of SpecLive), every
\* started turn reaches a terminal outcome, and its thread ends with the
\* running marker cleared.
C40_StartedTurnEnds ==
    (\A w \in Executors : []<>~BlockedWait(w)) =>
        \A e \in Executors :
            /\ (ex[e].pc \notin {"idle", "begin", "exit"})
                  ~> (ex[e].pc = "exit" /\ TerminalOutcome(ex[e].turn))
            /\ (ex[e].pc # "idle") ~> (ex[e].pc = "idle" /\ SID \notin running)

C40_EndedAfterWait ==
    /\ Active = {} /\ running = {}
    /\ \E n \in 1..Len(events) : events[n].type = "approval_requested"
    /\ \E n \in 1..Len(events) : events[n].type = "approval_granted"
    /\ \E n \in 1..Len(events) : events[n].type \in TerminalEvents /\ events[n].by = "engine"
====
